---- MODULE Spec2Model ----
(***************************************************************************)
(* Validation and URL composition of the image placeholder server:         *)
(* PlaceholderValidator, BaseUrlBuilder, PlaceholdUrlBuilder,              *)
(* PicsumUrlBuilder, UrlBuilderFactory and PlaceholderGenerator.           *)
(*                                                                         *)
(* A JavaScript string is a sequence of one-character strings, so that     *)
(* replace, encodeText, encodeURIComponent, toLowerCase and the template   *)
(* literals are computed character by character.                           *)
(***************************************************************************)
EXTENDS Integers, Sequences, FiniteSets

VARIABLES
    constraints,  \* the constraint set the validator holds
    updates,      \* updateConstraints calls made so far
    pc,           \* "idle", or "returned" while an outcome awaits its caller
    call,         \* the call in progress
    outcome,      \* what the call returned or threw
    steps,        \* the component calls the handler made, in order
    copy,         \* the object a getConstraints call handed to its caller
    memo          \* an earlier call, with the constraints held and its outcome

vars == <<constraints, updates, pc, call, outcome, steps, copy, memo>>

----------------------------------------------------------------------------
\* String literals of the source, as character sequences.

\* Provider names and base origins (types/index.ts, UrlBuilderFactory.ts).
s_placehold == <<"p", "l", "a", "c", "e", "h", "o", "l", "d">>
s_lorem_picsum == <<"l", "o", "r", "e", "m", "-", "p", "i", "c", "s", "u", "m">>
s_unsplash == <<"u", "n", "s", "p", "l", "a", "s", "h">>
s_https_placehold_co == <<"h", "t", "t", "p", "s", ":", "/", "/", "p", "l", "a", "c", "e", "h", "o", "l", "d", ".", "c", "o">>
s_https_picsum_photos == <<"h", "t", "t", "p", "s", ":", "/", "/", "p", "i", "c", "s", "u", "m", ".", "p", "h", "o", "t", "o", "s">>

\* Format names.
s_svg == <<"s", "v", "g">>
s_png == <<"p", "n", "g">>
s_jpeg == <<"j", "p", "e", "g">>
s_gif == <<"g", "i", "f">>
s_webp == <<"w", "e", "b", "p">>
s_avif == <<"a", "v", "i", "f">>
s_jpg == <<"j", "p", "g">>
s_bmp == <<"b", "m", "p">>

\* Font names.
s_lato == <<"l", "a", "t", "o">>
s_lora == <<"l", "o", "r", "a">>
s_montserrat == <<"m", "o", "n", "t", "s", "e", "r", "r", "a", "t">>
s_noto_sans == <<"n", "o", "t", "o", "-", "s", "a", "n", "s">>
s_open_sans == <<"o", "p", "e", "n", "-", "s", "a", "n", "s">>
s_oswald == <<"o", "s", "w", "a", "l", "d">>
s_playfair_display == <<"p", "l", "a", "y", "f", "a", "i", "r", "-", "d", "i", "s", "p", "l", "a", "y">>
s_poppins == <<"p", "o", "p", "p", "i", "n", "s">>
s_pt_sans == <<"p", "t", "-", "s", "a", "n", "s">>
s_raleway == <<"r", "a", "l", "e", "w", "a", "y">>
s_roboto == <<"r", "o", "b", "o", "t", "o">>
s_source_sans_pro == <<"s", "o", "u", "r", "c", "e", "-", "s", "a", "n", "s", "-", "p", "r", "o">>
s_arial == <<"a", "r", "i", "a", "l">>

\* Retina factors.
s_2x == <<"2", "x">>
s_3x == <<"3", "x">>
s_4x == <<"4", "x">>

\* Colour samples.
s_transparent == <<"t", "r", "a", "n", "s", "p", "a", "r", "e", "n", "t">>
s_f9fafb == <<"f", "9", "f", "a", "f", "b">>
s_2563eb == <<"2", "5", "6", "3", "e", "b">>
s_Red == <<"R", "e", "d">>
s_zzz == <<"z", "z", "z">>

\* Text and seed samples.
s_DeepakNess == <<"D", "e", "e", "p", "a", "k", "N", "e", "s", "s">>
s_Hello_World == <<"H", "e", "l", "l", "o", " ", "W", "o", "r", "l", "d">>
s_picsum == <<"p", "i", "c", "s", "u", "m">>
s_my_seed == <<"m", "y", " ", "s", "e", "e", "d", "/", "1">>
s_blank == <<" ">>

\* Fragments the builders append.
s_text_eq == <<"t", "e", "x", "t", "=">>
s_font_eq == <<"f", "o", "n", "t", "=">>
s_id_path == <<"/", "i", "d", "/">>
s_seed_path == <<"/", "s", "e", "e", "d", "/">>
s_grayscale == <<"g", "r", "a", "y", "s", "c", "a", "l", "e">>
s_blur == <<"b", "l", "u", "r">>
s_blur_eq == <<"b", "l", "u", "r", "=">>
s_random_eq == <<"r", "a", "n", "d", "o", "m", "=">>

\* Renderings of non-string values in a template literal.
s_undefined == <<"u", "n", "d", "e", "f", "i", "n", "e", "d">>
s_NaN == <<"N", "a", "N">>
s_true == <<"t", "r", "u", "e">>
s_false == <<"f", "a", "l", "s", "e">>
s_dot5 == <<".", "5">>

\* Error messages composed from the state (errors/index.ts, validator.ts,
\* UrlBuilderFactory.ts, placeholderGenerator.ts).
s_Provider_quote == <<"P", "r", "o", "v", "i", "d", "e", "r", " ", "\"">>
s_quote_error == <<"\"", " ", "e", "r", "r", "o", "r", ":", " ">>
s_Unsupported_Supported == <<"U", "n", "s", "u", "p", "p", "o", "r", "t", "e", "d", " ", "p", "r", "o", "v", "i", "d", "e", "r", ".", " ", "S", "u", "p", "p", "o", "r", "t", "e", "d", " ", "p", "r", "o", "v", "i", "d", "e", "r", "s", ":", " ">>
s_comma_space == <<",", " ">>
s_Unsupported_colon == <<"U", "n", "s", "u", "p", "p", "o", "r", "t", "e", "d", " ", "p", "r", "o", "v", "i", "d", "e", "r", ":", " ">>
s_No_builder == <<"N", "o", " ", "U", "R", "L", " ", "b", "u", "i", "l", "d", "e", "r", " ", "i", "m", "p", "l", "e", "m", "e", "n", "t", "e", "d", " ", "f", "o", "r", " ", "p", "r", "o", "v", "i", "d", "e", "r", ":", " ">>
s_URI_malformed == <<"U", "R", "I", " ", "m", "a", "l", "f", "o", "r", "m", "e", "d">>
s_image_placeholder == <<"i", "m", "a", "g", "e", "_", "p", "l", "a", "c", "e", "h", "o", "l", "d", "e", "r">>
s_list_providers == <<"l", "i", "s", "t", "_", "p", "r", "o", "v", "i", "d", "e", "r", "s">>
s_Unexpected_error_during == <<"U", "n", "e", "x", "p", "e", "c", "t", "e", "d", " ", "e", "r", "r", "o", "r", " ", "d", "u", "r", "i", "n", "g", " ">>
s_execution == <<" ", "e", "x", "e", "c", "u", "t", "i", "o", "n", ":", " ">>
s_Unknown_tool == <<"U", "n", "k", "n", "o", "w", "n", " ", "t", "o", "o", "l", ":", " ">>
s_Unsupported_provider == <<"U", "n", "s", "u", "p", "p", "o", "r", "t", "e", "d", " ", "p", "r", "o", "v", "i", "d", "e", "r">>

----------------------------------------------------------------------------
\* JavaScript values.  k is the kind; n carries a number (for "frac" the
\* value is n + 1/2, for "boolean" 1 is true); s carries a string.

Undefined == [k |-> "undefined", n |-> 0, s |-> <<>>]

JsInt(i) == [k |-> "int", n |-> i, s |-> <<>>]

JsFrac(i) == [k |-> "frac", n |-> i, s |-> <<>>]

JsNaN == [k |-> "nan", n |-> 0, s |-> <<>>]

JsStr(cs) == [k |-> "string", n |-> 0, s |-> cs]

JsBool(b) == [k |-> "boolean", n |-> IF b THEN 1 ELSE 0, s |-> <<>>]

\* typeof v === 'number'
IsNumber(v) == v.k \in {"int", "frac", "nan"}

\* Number.isInteger(v)
IsInteger(v) == v.k = "int"

\* isNaN(v) for a value of type number
IsNaN(v) == v.k = "nan"

\* The truthiness JavaScript gives a value in `if (v)`, `v && ...`, `v || ...`.
Truthy(v) ==
    CASE v.k = "undefined" -> FALSE
      [] v.k = "int" -> v.n # 0
      [] v.k = "frac" -> TRUE
      [] v.k = "nan" -> FALSE
      [] v.k = "string" -> v.s # <<>>
      [] v.k = "boolean" -> v.n = 1

\* v < c and v > c for a number v and an integer c (n + 1/2 < c iff n < c).
NumLt(v, c) ==
    CASE v.k = "int" -> v.n < c
      [] v.k = "frac" -> v.n < c
      [] OTHER -> FALSE

NumGt(v, c) ==
    CASE v.k = "int" -> v.n > c
      [] v.k = "frac" -> v.n >= c
      [] OTHER -> FALSE

DigitChar == <<"0", "1", "2", "3", "4", "5", "6", "7", "8", "9">>

RECURSIVE NatToString(_)
NatToString(i) ==
    IF i < 10 THEN <<DigitChar[i + 1]>>
    ELSE NatToString(i \div 10) \o <<DigitChar[(i % 10) + 1]>>

IntToString(i) == IF i < 0 THEN <<"-">> \o NatToString(-i) ELSE NatToString(i)

\* `${v}` and v.toString(): the string a template literal renders for a value.
toString(v) ==
    CASE v.k = "int" -> IntToString(v.n)
      [] v.k = "frac" ->
           IF v.n < 0 THEN <<"-">> \o NatToString(-(v.n + 1)) \o s_dot5
           ELSE NatToString(v.n) \o s_dot5
      [] v.k = "nan" -> s_NaN
      [] v.k = "string" -> v.s
      [] v.k = "boolean" -> IF v.n = 1 THEN s_true ELSE s_false
      [] v.k = "undefined" -> s_undefined

\* array.includes(x) for an array of strings
Includes(arr, x) == \E i \in 1..Len(arr) : arr[i] = x

\* array.join(sep)
RECURSIVE Join(_, _)
Join(arr, sep) ==
    IF arr = <<>> THEN <<>>
    ELSE IF Len(arr) = 1 THEN arr[1]
    ELSE arr[1] \o sep \o Join(Tail(arr), sep)

\* s.replace(from, to) with a one-character string pattern: the FIRST
\* occurrence only is replaced.
RECURSIVE ReplaceFirst(_, _, _)
ReplaceFirst(cs, from, to) ==
    IF cs = <<>> THEN <<>>
    ELSE IF Head(cs) = from THEN <<to>> \o Tail(cs)
    ELSE <<Head(cs)>> \o ReplaceFirst(Tail(cs), from, to)

\* s.replace(pattern, to) with a string pattern: the first occurrence of the
\* pattern is replaced, the rest of the string is kept.
RECURSIVE replace(_, _, _)
replace(cs, pattern, to) ==
    IF Len(cs) < Len(pattern) THEN cs
    ELSE IF SubSeq(cs, 1, Len(pattern)) = pattern
    THEN to \o SubSeq(cs, Len(pattern) + 1, Len(cs))
    ELSE <<Head(cs)>> \o replace(Tail(cs), pattern, to)

\* s.replace(/c/g, to): every occurrence of the character is replaced by the
\* character sequence `to`.
RECURSIVE ReplaceAll(_, _, _)
ReplaceAll(cs, from, to) ==
    IF cs = <<>> THEN <<>>
    ELSE (IF Head(cs) = from THEN to ELSE <<Head(cs)>>)
         \o ReplaceAll(Tail(cs), from, to)

UpperCase ==
    {"A", "B", "C", "D", "E", "F", "G", "H", "I", "J", "K", "L", "M",
     "N", "O", "P", "Q", "R", "S", "T", "U", "V", "W", "X", "Y", "Z"}

LowerOf ==
    [c \in UpperCase |->
        CASE c = "A" -> "a" [] c = "B" -> "b" [] c = "C" -> "c" [] c = "D" -> "d"
          [] c = "E" -> "e" [] c = "F" -> "f" [] c = "G" -> "g" [] c = "H" -> "h"
          [] c = "I" -> "i" [] c = "J" -> "j" [] c = "K" -> "k" [] c = "L" -> "l"
          [] c = "M" -> "m" [] c = "N" -> "n" [] c = "O" -> "o" [] c = "P" -> "p"
          [] c = "Q" -> "q" [] c = "R" -> "r" [] c = "S" -> "s" [] c = "T" -> "t"
          [] c = "U" -> "u" [] c = "V" -> "v" [] c = "W" -> "w" [] c = "X" -> "x"
          [] c = "Y" -> "y" [] c = "Z" -> "z"]

\* s.toLowerCase()
ToLowerCase(cs) ==
    [i \in 1..Len(cs) |-> IF cs[i] \in UpperCase THEN LowerOf[cs[i]] ELSE cs[i]]

\* s.trim(): leading and trailing white space removed.
WhiteSpace == {" ", "\n", "\t", "\r"}

RECURSIVE TrimStart(_)
TrimStart(cs) ==
    IF cs # <<>> /\ Head(cs) \in WhiteSpace THEN TrimStart(Tail(cs)) ELSE cs

RECURSIVE TrimEnd(_)
TrimEnd(cs) ==
    IF cs # <<>> /\ cs[Len(cs)] \in WhiteSpace
    THEN TrimEnd(SubSeq(cs, 1, Len(cs) - 1))
    ELSE cs

Trim(cs) == TrimEnd(TrimStart(cs))

\* encodeURIComponent: letters, digits and - _ . ! ~ * ' ( ) are kept, every
\* other character becomes % and its two hexadecimal digits.
Unreserved ==
    UpperCase \cup {LowerOf[c] : c \in UpperCase}
    \cup {DigitChar[i] : i \in 1..10}
    \cup {"-", "_", ".", "!", "~", "*", "'", "(", ")"}

PercentCode ==
    [c \in {" ", "/", "?", "&", "=", "#", "%", "+", ":", "\n"} |->
        CASE c = " " -> <<"%", "2", "0">>
          [] c = "/" -> <<"%", "2", "F">>
          [] c = "?" -> <<"%", "3", "F">>
          [] c = "&" -> <<"%", "2", "6">>
          [] c = "=" -> <<"%", "3", "D">>
          [] c = "#" -> <<"%", "2", "3">>
          [] c = "%" -> <<"%", "2", "5">>
          [] c = "+" -> <<"%", "2", "B">>
          [] c = ":" -> <<"%", "3", "A">>
          [] c = "\n" -> <<"%", "0", "A">>]

\* A surrogate code unit with no partner next to it, written as one
\* character of a string: encodeURIComponent throws a URIError for a string
\* that holds one.
LoneSurrogate == "\\uD800"

IsWellFormed(cs) == \A i \in 1..Len(cs) : cs[i] # LoneSurrogate

RECURSIVE encodeURIComponent(_)
encodeURIComponent(cs) ==
    IF cs = <<>> THEN <<>>
    ELSE (IF Head(cs) \in Unreserved THEN <<Head(cs)>> ELSE PercentCode[Head(cs)])
         \o encodeURIComponent(Tail(cs))

----------------------------------------------------------------------------
\* Options objects (PlaceholdOptions, PicsumOptions of types/index.ts).

\* An options argument that was not passed; a field of an options object that
\* was passed is Undefined when the object does not hold it.
NoPlaceholdOptions ==
    [def |-> FALSE, format |-> Undefined, backgroundColor |-> Undefined,
     textColor |-> Undefined, customText |-> Undefined, font |-> Undefined,
     retina |-> Undefined]

NoPicsumOptions ==
    [def |-> FALSE, format |-> Undefined, imageId |-> Undefined,
     seed |-> Undefined, grayscale |-> Undefined, blur |-> Undefined,
     random |-> Undefined]

----------------------------------------------------------------------------
\* Outcomes of a call: a normal return (of a URL, or of nothing) or a thrown
\* error of a kind, naming the field it is about.

NoRecord ==
    [provider |-> Undefined, width |-> Undefined, height |-> Undefined,
     placeholdOptions |-> NoPlaceholdOptions,
     picsumOptions |-> NoPicsumOptions]

\* An outcome: what a call returned (its URL, its result record) or the
\* error it threw (its class, the field it names, its message where the
\* source composes one from the state).
Return(url) ==
    [kind |-> "return", field |-> "", message |-> <<>>, url |-> url,
     rec |-> NoRecord]

Completed == Return(<<>>)

Throw(kind, field) ==
    [kind |-> kind, field |-> field, message |-> <<>>, url |-> <<>>,
     rec |-> NoRecord]

ValidationError(field) == Throw("ValidationError", field)

\* new ProviderError(provider, message): `Provider "${provider}" error: ${message}`
ProviderError(provider, message) ==
    [Throw("ProviderError", "provider") EXCEPT
        !.message = s_Provider_quote \o toString(provider) \o s_quote_error
                    \o message]

\* The URIError of encodeURIComponent.
URIError == [Throw("URIError", "") EXCEPT !.message = s_URI_malformed]

\* new ServerError(message)
ServerError(message) == [Throw("ServerError", "") EXCEPT !.message = message]

\* error instanceof ImagePlaceholderError: the classes of errors.ts.
ImagePlaceholderErrors ==
    {"ImagePlaceholderError", "ValidationError", "ProviderError",
     "ConfigurationError", "ServerError"}

Threw(r) == r.kind # "return"

----------------------------------------------------------------------------
\* BaseUrlBuilder

BUILDER_MIN_DIMENSION == 10

BUILDER_MAX_DIMENSION == 4000

\* Mutant: the builder trusting the dimensions the validator let through.
validateDimensions_Trusting(width, height) == Completed

validateDimensions(width, height) ==
    IF ~IsInteger(width) \/ NumLt(width, BUILDER_MIN_DIMENSION)
       \/ NumGt(width, BUILDER_MAX_DIMENSION)
    THEN ValidationError("width")
    ELSE IF height # Undefined
            /\ (~IsInteger(height) \/ NumLt(height, BUILDER_MIN_DIMENSION)
                \/ NumGt(height, BUILDER_MAX_DIMENSION))
    THEN ValidationError("height")
    ELSE Completed

HexDigit ==
    {DigitChar[i] : i \in 1..10}
    \cup {"a", "b", "c", "d", "e", "f", "A", "B", "C", "D", "E", "F"}

\* /^#?([A-Fa-f0-9]{6}|[A-Fa-f0-9]{3})$/.test(color)
isValidHexColor(color) ==
    LET body == IF color # <<>> /\ Head(color) = "#" THEN Tail(color) ELSE color
    IN  /\ Len(body) \in {3, 6}
        /\ \A i \in 1..Len(body) : body[i] \in HexDigit

cssColors ==
    << <<"b", "l", "a", "c", "k">>,
       <<"w", "h", "i", "t", "e">>,
       <<"r", "e", "d">>,
       <<"g", "r", "e", "e", "n">>,
       <<"b", "l", "u", "e">>,
       <<"y", "e", "l", "l", "o", "w">>,
       <<"o", "r", "a", "n", "g", "e">>,
       <<"p", "u", "r", "p", "l", "e">>,
       <<"p", "i", "n", "k">>,
       <<"b", "r", "o", "w", "n">>,
       <<"g", "r", "a", "y">>,
       <<"g", "r", "e", "y">>,
       <<"c", "y", "a", "n">>,
       <<"m", "a", "g", "e", "n", "t", "a">>,
       <<"l", "i", "m", "e">>,
       <<"m", "a", "r", "o", "o", "n">>,
       <<"n", "a", "v", "y">>,
       <<"o", "l", "i", "v", "e">>,
       <<"s", "i", "l", "v", "e", "r">>,
       <<"t", "e", "a", "l">>,
       <<"a", "q", "u", "a">>,
       <<"f", "u", "c", "h", "s", "i", "a">>,
       <<"t", "r", "a", "n", "s", "p", "a", "r", "e", "n", "t">> >>

\* Mutant: the keyword compared as written.
isValidCssColor_CaseSensitive(color) == Includes(cssColors, color)

isValidCssColor(color) == Includes(cssColors, ToLowerCase(color))

isValidColor(color) ==
    color = s_transparent \/ isValidHexColor(color) \/ isValidCssColor(color)

\* Mutant: the text percent-encoded.
encodeText_Percent(text) == encodeURIComponent(text)

\* text.replace(/ /g, '+').replace(/\n/g, '\\n')
encodeText(text) == ReplaceAll(ReplaceAll(text, " ", <<"+">>), "\n", <<"\\", "n">>)

\* The first error thrown by a sequence of checks made one after the other,
\* or normal completion when none of them throws.
FirstThrown(checks) ==
    IF \E i \in 1..Len(checks) : Threw(checks[i])
    THEN checks[CHOOSE i \in 1..Len(checks) :
                    /\ Threw(checks[i])
                    /\ \A j \in 1..(i - 1) : ~Threw(checks[j])]
    ELSE Completed

\* `?${queryParams.join('&')}` when there is a parameter, nothing otherwise.
QueryString(queryParams) ==
    IF Len(queryParams) > 0 THEN <<"?">> \o Join(queryParams, <<"&">>) ELSE <<>>

----------------------------------------------------------------------------
\* PlaceholdUrlBuilder

PlaceholdSupportedFormats == <<s_svg, s_png, s_jpeg, s_gif, s_webp, s_avif>>

supportedFonts ==
    <<s_lato, s_lora, s_montserrat, s_noto_sans, s_open_sans, s_oswald,
      s_playfair_display, s_poppins, s_pt_sans, s_raleway, s_roboto,
      s_source_sans_pro>>

retinaFormats == <<s_png, s_jpeg, s_gif, s_webp, s_avif>>

retinaValues == <<s_2x, s_3x>>

PlaceholdCheckFormat(options) ==
    IF Truthy(options.format)
       /\ ~Includes(PlaceholdSupportedFormats, options.format.s)
    THEN ValidationError("format")
    ELSE Completed

PlaceholdCheckRetinaFormat(options) ==
    IF Truthy(options.retina) /\ Truthy(options.format)
       /\ ~Includes(retinaFormats, options.format.s)
    THEN ValidationError("retina")
    ELSE Completed

\* Mutant: the pairing looked at only when a background color is given.
PlaceholdCheckColors_BackgroundOnly(options) ==
    IF Truthy(options.backgroundColor)
    THEN IF ~Truthy(options.textColor)
         THEN ValidationError("colors")
         ELSE IF ~isValidColor(options.backgroundColor.s)
         THEN ValidationError("backgroundColor")
         ELSE IF ~isValidColor(options.textColor.s)
         THEN ValidationError("textColor")
         ELSE Completed
    ELSE Completed

PlaceholdCheckColors(options) ==
    IF Truthy(options.backgroundColor) \/ Truthy(options.textColor)
    THEN IF ~Truthy(options.backgroundColor) \/ ~Truthy(options.textColor)
         THEN ValidationError("colors")
         ELSE IF ~isValidColor(options.backgroundColor.s)
         THEN ValidationError("backgroundColor")
         ELSE IF ~isValidColor(options.textColor.s)
         THEN ValidationError("textColor")
         ELSE Completed
    ELSE Completed

PlaceholdCheckFont(options) ==
    IF Truthy(options.font) /\ ~Includes(supportedFonts, options.font.s)
    THEN ValidationError("font")
    ELSE Completed

PlaceholdCheckRetina(options) ==
    IF Truthy(options.retina) /\ ~Includes(retinaValues, options.retina.s)
    THEN ValidationError("retina")
    ELSE Completed

PlaceholdValidateOptions(options) ==
    IF ~options.def THEN Completed
    ELSE FirstThrown(<<PlaceholdCheckFormat(options),
                       PlaceholdCheckRetinaFormat(options),
                       PlaceholdCheckColors(options),
                       PlaceholdCheckFont(options),
                       PlaceholdCheckRetina(options)>>)

\* Mutant: the height appended whenever one is given, equal to the width or not.
PlaceholdSizeComponent_AlwaysHeight(width, height) ==
    <<"/">> \o toString(width)
    \o (IF Truthy(height) THEN <<"x">> \o toString(height) ELSE <<>>)

PlaceholdSizeComponent(width, height) ==
    <<"/">> \o toString(width)
    \o (IF Truthy(height) /\ height # width
        THEN <<"x">> \o toString(height)
        ELSE <<>>)

PlaceholdRetinaComponent(options) ==
    IF Truthy(options.retina) THEN <<"@">> \o toString(options.retina) ELSE <<>>

PlaceholdColorsComponent(options) ==
    IF Truthy(options.backgroundColor) /\ Truthy(options.textColor)
    THEN <<"/">> \o toString(options.backgroundColor)
         \o <<"/">> \o toString(options.textColor)
    ELSE <<>>

PlaceholdFormatComponent(options) ==
    IF Truthy(options.format) /\ options.format # JsStr(s_svg)
    THEN <<".">> \o toString(options.format)
    ELSE <<>>

PlaceholdTextParam(options) ==
    IF Truthy(options.customText)
    THEN <<s_text_eq \o encodeText(options.customText.s)>>
    ELSE <<>>

\* options.font.replace('-', '+')
PlaceholdFontValue(font) == ReplaceFirst(font, "-", "+")

PlaceholdFontParam(options) ==
    IF Truthy(options.font) /\ options.font # JsStr(s_lato)
    THEN <<s_font_eq \o PlaceholdFontValue(options.font.s)>>
    ELSE <<>>

\* Mutant: the font parameter pushed before the text parameter.
PlaceholdQueryParams_FontFirst(options) ==
    PlaceholdFontParam(options) \o PlaceholdTextParam(options)

PlaceholdQueryParams(options) ==
    PlaceholdTextParam(options) \o PlaceholdFontParam(options)

PlaceholdComposeUrl(baseUrl, width, height, options) ==
    baseUrl
    \o PlaceholdSizeComponent(width, height)
    \o PlaceholdRetinaComponent(options)
    \o PlaceholdColorsComponent(options)
    \o PlaceholdFormatComponent(options)
    \o QueryString(PlaceholdQueryParams(options))

PlaceholdBuildUrl(baseUrl, width, height, options) ==
    LET dims == validateDimensions(width, height)
        opts == IF options.def THEN PlaceholdValidateOptions(options) ELSE Completed
    IN  IF Threw(dims) THEN dims
        ELSE IF Threw(opts) THEN opts
        ELSE Return(PlaceholdComposeUrl(baseUrl, width, height, options))

----------------------------------------------------------------------------
\* PicsumUrlBuilder

PicsumSupportedFormats == <<s_jpg, s_webp>>

PICSUM_MIN_BLUR == 1

PICSUM_MAX_BLUR == 10

PicsumCheckFormat(options) ==
    IF Truthy(options.format)
       /\ ~Includes(PicsumSupportedFormats, options.format.s)
    THEN ValidationError("format")
    ELSE Completed

PicsumCheckImageId(options) ==
    IF options.imageId # Undefined
       /\ (~IsInteger(options.imageId) \/ NumLt(options.imageId, 0))
    THEN ValidationError("imageId")
    ELSE Completed

PicsumCheckSeed(options) ==
    IF options.seed # Undefined
       /\ (options.seed.k # "string" \/ Len(Trim(options.seed.s)) = 0)
    THEN ValidationError("seed")
    ELSE Completed

\* Mutant: a blur of 0 let through.
PicsumCheckBlur_FromZero(options) ==
    IF options.blur # Undefined
       /\ (~IsInteger(options.blur) \/ NumLt(options.blur, 0)
           \/ NumGt(options.blur, PICSUM_MAX_BLUR))
    THEN ValidationError("blur")
    ELSE Completed

PicsumCheckBlur(options) ==
    IF options.blur # Undefined
       /\ (~IsInteger(options.blur) \/ NumLt(options.blur, PICSUM_MIN_BLUR)
           \/ NumGt(options.blur, PICSUM_MAX_BLUR))
    THEN ValidationError("blur")
    ELSE Completed

PicsumCheckRandom(options) ==
    IF options.random # Undefined
       /\ (~IsInteger(options.random) \/ NumLt(options.random, 0))
    THEN ValidationError("random")
    ELSE Completed

\* Mutant: the selectors compared by truthiness, so that id 0 is no selector.
PicsumCheckExclusive_Truthy(options) ==
    IF Truthy(options.imageId) /\ Truthy(options.seed)
    THEN ValidationError("options")
    ELSE Completed

PicsumCheckExclusive(options) ==
    IF options.imageId # Undefined /\ options.seed # Undefined
    THEN ValidationError("options")
    ELSE Completed

PicsumValidateOptions(options) ==
    IF ~options.def THEN Completed
    ELSE FirstThrown(<<PicsumCheckFormat(options),
                       PicsumCheckImageId(options),
                       PicsumCheckSeed(options),
                       PicsumCheckBlur(options),
                       PicsumCheckRandom(options),
                       PicsumCheckExclusive(options)>>)

PicsumPrefixComponent(options) ==
    IF Truthy(options.imageId)
    THEN s_id_path \o toString(options.imageId)
    ELSE IF Truthy(options.seed)
    THEN s_seed_path \o encodeURIComponent(options.seed.s)
    ELSE <<>>

PicsumDimensionsComponent(width, height) ==
    <<"/">> \o toString(width)
    \o (IF Truthy(height) /\ height # width
        THEN <<"/">> \o toString(height)
        ELSE <<>>)

PicsumFormatComponent(options) ==
    IF Truthy(options.format) THEN <<".">> \o toString(options.format) ELSE <<>>

PicsumGrayscaleParam(options) ==
    IF Truthy(options.grayscale) THEN <<s_grayscale>> ELSE <<>>

PicsumBlurParam(options) ==
    IF options.blur # Undefined
    THEN IF options.blur = JsInt(0) \/ options.blur = JsInt(1)
         THEN <<s_blur>>
         ELSE <<s_blur_eq \o toString(options.blur)>>
    ELSE <<>>

\* Mutant: the cache-busting token read by truthiness, so that 0 gives none.
PicsumRandomParam_Truthy(options) ==
    IF Truthy(options.random)
    THEN <<s_random_eq \o toString(options.random)>>
    ELSE <<>>

PicsumRandomParam(options) ==
    IF options.random # Undefined
    THEN <<s_random_eq \o toString(options.random)>>
    ELSE <<>>

\* Mutant: the blur effect pushed before the grayscale flag.
PicsumQueryParams_BlurFirst(options) ==
    PicsumBlurParam(options) \o PicsumGrayscaleParam(options)
    \o PicsumRandomParam(options)

PicsumQueryParams(options) ==
    PicsumGrayscaleParam(options) \o PicsumBlurParam(options)
    \o PicsumRandomParam(options)

\* Mutant: the URL accumulated on the builder, so that a call starts from the
\* URL an earlier call of it left behind.
PicsumComposeUrl_Accumulating(baseUrl, width, height, options) ==
    (IF memo.call.op = "picsum.buildUrl" THEN memo.outcome.url ELSE baseUrl)
    \o PicsumPrefixComponent(options)
    \o PicsumDimensionsComponent(width, height)
    \o PicsumFormatComponent(options)
    \o QueryString(PicsumQueryParams(options))

PicsumComposeUrl(baseUrl, width, height, options) ==
    baseUrl
    \o PicsumPrefixComponent(options)
    \o PicsumDimensionsComponent(width, height)
    \o PicsumFormatComponent(options)
    \o QueryString(PicsumQueryParams(options))

PicsumBuildUrl(baseUrl, width, height, options) ==
    LET dims == validateDimensions(width, height)
        opts == IF options.def THEN PicsumValidateOptions(options) ELSE Completed
        seedEncoded ==
            /\ ~Truthy(options.imageId)
            /\ Truthy(options.seed)
    IN  IF Threw(dims) THEN dims
        ELSE IF Threw(opts) THEN opts
        ELSE IF seedEncoded /\ ~IsWellFormed(options.seed.s) THEN URIError
        ELSE Return(PicsumComposeUrl(baseUrl, width, height, options))

----------------------------------------------------------------------------
\* Configuration defaults and PlaceholderValidator

DEFAULT_MIN_DIMENSION == 1

DEFAULT_MAX_DIMENSION == 10000

DEFAULT_CONSTRAINTS ==
    [minWidth |-> DEFAULT_MIN_DIMENSION, maxWidth |-> DEFAULT_MAX_DIMENSION,
     minHeight |-> DEFAULT_MIN_DIMENSION, maxHeight |-> DEFAULT_MAX_DIMENSION,
     supportedProviders |-> <<s_placehold, s_lorem_picsum>>]

\* A request that was not passed (null or undefined params).
NoParams ==
    [def |-> FALSE, provider |-> Undefined, width |-> Undefined,
     height |-> Undefined, placeholdOptions |-> NoPlaceholdOptions,
     picsumOptions |-> NoPicsumOptions]

\* Mutant: an unsupported provider reported as a validation error.
validateProvider_OneKind(c, provider) ==
    IF ~Truthy(provider) \/ provider.k # "string"
    THEN ValidationError("provider")
    ELSE IF ~Includes(c.supportedProviders, provider.s)
    THEN ValidationError("provider")
    ELSE Completed

validateProvider(c, provider) ==
    IF ~Truthy(provider) \/ provider.k # "string"
    THEN ValidationError("provider")
    ELSE IF ~Includes(c.supportedProviders, provider.s)
    THEN ProviderError(provider,
                       s_Unsupported_Supported
                       \o Join(c.supportedProviders, s_comma_space))
    ELSE Completed

\* Mutant: the bounds themselves refused.
validateDimension_Exclusive(c, dimensionName, value) ==
    LET minConstraint == IF dimensionName = "width" THEN c.minWidth ELSE c.minHeight
        maxConstraint == IF dimensionName = "width" THEN c.maxWidth ELSE c.maxHeight
    IN  IF ~IsNumber(value) \/ IsNaN(value) \/ ~IsInteger(value)
        THEN ValidationError(dimensionName)
        ELSE IF ~NumGt(value, minConstraint) \/ ~NumLt(value, maxConstraint)
        THEN ValidationError(dimensionName)
        ELSE Completed

validateDimension(c, dimensionName, value) ==
    LET minConstraint == IF dimensionName = "width" THEN c.minWidth ELSE c.minHeight
        maxConstraint == IF dimensionName = "width" THEN c.maxWidth ELSE c.maxHeight
    IN  IF ~IsNumber(value) \/ IsNaN(value) \/ ~IsInteger(value)
        THEN ValidationError(dimensionName)
        ELSE IF NumLt(value, minConstraint) \/ NumGt(value, maxConstraint)
        THEN ValidationError(dimensionName)
        ELSE Completed

\* Mutant: options of the other provider let through.
validateProviderOptions_Lenient(params) == Completed

validateProviderOptions(params) ==
    IF params.provider = JsStr(s_placehold) /\ params.picsumOptions.def
    THEN ValidationError("picsumOptions")
    ELSE IF params.provider = JsStr(s_lorem_picsum) /\ params.placeholdOptions.def
    THEN ValidationError("placeholdOptions")
    ELSE Completed

\* Mutant: the width checked before the provider.
validateParams_WidthFirst(c, params) ==
    IF ~params.def THEN ValidationError("params")
    ELSE FirstThrown(<<validateDimension(c, "width", params.width),
                       validateProvider(c, params.provider),
                       IF params.height # Undefined
                       THEN validateDimension(c, "height", params.height)
                       ELSE Completed,
                       validateProviderOptions(params)>>)

validateParams(c, params) ==
    IF ~params.def THEN ValidationError("params")
    ELSE FirstThrown(<<validateProvider(c, params.provider),
                       validateDimension(c, "width", params.width),
                       IF params.height # Undefined
                       THEN validateDimension(c, "height", params.height)
                       ELSE Completed,
                       validateProviderOptions(params)>>)

\* { ...this.constraints }: a new object with the fields of the held one, each
\* field holding the same value, the supportedProviders array itself included.
getConstraints(c) == [f \in DOMAIN c |-> c[f]]

\* Mutant: the partial merged into the defaults, not into the held set.
updateConstraints_OntoDefaults(c, newConstraints) ==
    [f \in DOMAIN c |->
        IF f \in DOMAIN newConstraints THEN newConstraints[f]
        ELSE DEFAULT_CONSTRAINTS[f]]

\* { ...this.constraints, ...newConstraints }
updateConstraints(c, newConstraints) ==
    [f \in DOMAIN c |->
        IF f \in DOMAIN newConstraints THEN newConstraints[f] ELSE c[f]]

----------------------------------------------------------------------------
\* UrlBuilderFactory

PROVIDER_CONFIGS ==
    [p \in {s_placehold, s_lorem_picsum} |->
        IF p = s_placehold THEN s_https_placehold_co ELSE s_https_picsum_photos]

getProviderBaseUrl(provider) ==
    IF provider.k = "string" /\ provider.s \in DOMAIN PROVIDER_CONFIGS
    THEN JsStr(PROVIDER_CONFIGS[provider.s])
    ELSE Undefined

\* The builder object, or the error thrown in place of one.
createBuilder(provider) ==
    LET baseUrl == getProviderBaseUrl(provider)
    IN  IF ~Truthy(baseUrl)
        THEN [err |-> ProviderError(provider,
                                    s_Unsupported_colon \o toString(provider)),
              cls |-> "none", baseUrl |-> <<>>]
        ELSE IF provider = JsStr(s_placehold)
        THEN [err |-> Completed, cls |-> "PlaceholdUrlBuilder", baseUrl |-> baseUrl.s]
        ELSE IF provider = JsStr(s_lorem_picsum)
        THEN [err |-> Completed, cls |-> "PicsumUrlBuilder", baseUrl |-> baseUrl.s]
        ELSE [err |-> ProviderError(provider,
                                    s_No_builder \o toString(provider)),
              cls |-> "none", baseUrl |-> <<>>]

\* urlBuilder.buildUrl(width, height, options), dispatched on the builder's class.
buildUrl(urlBuilder, width, height, options) ==
    IF urlBuilder.cls = "PlaceholdUrlBuilder"
    THEN PlaceholdBuildUrl(urlBuilder.baseUrl, width, height, options)
    ELSE PicsumBuildUrl(urlBuilder.baseUrl, width, height, options)

----------------------------------------------------------------------------
\* PlaceholderGenerator

\* Mutant: the record carrying the height as requested, absent when none was
\* given.
generatePlaceholder_RequestedHeight(c, params) ==
    LET checked == validateParams(c, params)
        urlBuilder == createBuilder(params.provider)
        built ==
            IF params.provider = JsStr(s_placehold)
            THEN buildUrl(urlBuilder, params.width, params.height,
                          params.placeholdOptions)
            ELSE IF params.provider = JsStr(s_lorem_picsum)
            THEN buildUrl(urlBuilder, params.width, params.height,
                          params.picsumOptions)
            ELSE ProviderError(params.provider, s_Unsupported_provider)
    IN  IF Threw(checked) THEN checked
        ELSE IF Threw(urlBuilder.err) THEN urlBuilder.err
        ELSE IF Threw(built) THEN built
        ELSE [kind |-> "return", field |-> "", message |-> <<>>,
              url |-> built.url,
              rec |-> [provider |-> params.provider,
                       width |-> params.width,
                       height |-> params.height,
                       placeholdOptions |-> params.placeholdOptions,
                       picsumOptions |-> params.picsumOptions]]

\* Mutant: a failure of the builder wrapped into a provider error that carries
\* the request.
generatePlaceholder_Wrapping(c, params) ==
    LET checked == validateParams(c, params)
        urlBuilder == createBuilder(params.provider)
        built ==
            IF params.provider = JsStr(s_placehold)
            THEN buildUrl(urlBuilder, params.width, params.height,
                          params.placeholdOptions)
            ELSE buildUrl(urlBuilder, params.width, params.height,
                          params.picsumOptions)
        requested ==
            [provider |-> params.provider, width |-> params.width,
             height |-> params.height,
             placeholdOptions |-> params.placeholdOptions,
             picsumOptions |-> params.picsumOptions]
    IN  IF Threw(checked) THEN checked
        ELSE IF Threw(urlBuilder.err) THEN urlBuilder.err
        ELSE IF Threw(built)
        THEN [ProviderError(params.provider, built.message)
                 EXCEPT !.rec = requested]
        ELSE [kind |-> "return", field |-> "", message |-> <<>>,
              url |-> built.url, rec |-> requested]

generatePlaceholder(c, params) ==
    LET checked == validateParams(c, params)
        urlBuilder == createBuilder(params.provider)
        built ==
            IF params.provider = JsStr(s_placehold)
            THEN buildUrl(urlBuilder, params.width, params.height,
                          params.placeholdOptions)
            ELSE IF params.provider = JsStr(s_lorem_picsum)
            THEN buildUrl(urlBuilder, params.width, params.height,
                          params.picsumOptions)
            ELSE ProviderError(params.provider, s_Unsupported_provider)
        effectiveHeight ==
            IF Truthy(params.height) THEN params.height ELSE params.width
    IN  IF Threw(checked) THEN checked
        ELSE IF Threw(urlBuilder.err) THEN urlBuilder.err
        ELSE IF Threw(built) THEN built
        ELSE [kind |-> "return", field |-> "", message |-> <<>>,
              url |-> built.url,
              rec |-> [provider |-> params.provider,
                       width |-> params.width,
                       height |-> effectiveHeight,
                       placeholdOptions |-> params.placeholdOptions,
                       picsumOptions |-> params.picsumOptions]]

\* The calls generatePlaceholder makes on its components, in order: each is
\* reached only when the ones before it completed.
generatePlaceholderSteps(c, params) ==
    LET checked == validateParams(c, params)
        urlBuilder == createBuilder(params.provider)
    IN  <<"validateParams">>
        \o (IF Threw(checked) THEN <<>>
            ELSE <<"createBuilder">>
                 \o (IF Threw(urlBuilder.err)
                        \/ (/\ params.provider # JsStr(s_placehold)
                            /\ params.provider # JsStr(s_lorem_picsum))
                     THEN <<>> ELSE <<"buildUrl">>))

----------------------------------------------------------------------------
\* The call-tool handler of the server

\* The result of a tool call: its content array.
ToolResult(content) ==
    [kind |-> "return", field |-> "", message |-> <<>>, url |-> <<>>,
     rec |-> NoRecord, content |-> content]

\* Mutant: every failure of the generator wrapped into a server error.
callTool_WrapAll(c, toolName, arguments) ==
    IF toolName = s_image_placeholder
    THEN LET result == generatePlaceholder(c, arguments)
         IN  IF ~Threw(result)
             THEN ToolResult(<<[type |-> "text", text |-> result.url]>>)
             ELSE ServerError(s_Unexpected_error_during \o toolName
                              \o s_execution \o result.message)
    ELSE ServerError(s_Unknown_tool \o toolName)

\* The handler of CallToolRequestSchema, for a request naming toolName with
\* the given arguments.
callTool(c, toolName, arguments) ==
    IF toolName = s_image_placeholder
    THEN LET result == generatePlaceholder(c, arguments)
         IN  IF ~Threw(result)
             THEN ToolResult(<<[type |-> "text", text |-> result.url]>>)
             ELSE IF result.kind \in ImagePlaceholderErrors THEN result
             ELSE ServerError(s_Unexpected_error_during \o toolName
                              \o s_execution \o result.message)
    ELSE ServerError(s_Unknown_tool \o toolName)

\* The calls the handler makes, in order.
callToolSteps(c, toolName, arguments) ==
    IF toolName = s_image_placeholder
    THEN <<"generatePlaceholder">> \o generatePlaceholderSteps(c, arguments)
    ELSE <<>>

----------------------------------------------------------------------------
\* Configuration from the environment

\* The digits a string starts with.
RECURSIVE DigitPrefix(_)
DigitPrefix(cs) ==
    IF cs = <<>> \/ ~(\E i \in 1..10 : DigitChar[i] = Head(cs)) THEN <<>>
    ELSE <<Head(cs)>> \o DigitPrefix(Tail(cs))

\* The number a sequence of digits writes.
RECURSIVE DigitsValue(_)
DigitsValue(ds) ==
    IF ds = <<>> THEN 0
    ELSE 10 * DigitsValue(SubSeq(ds, 1, Len(ds) - 1))
         + (CHOOSE d \in 0..9 : DigitChar[d + 1] = ds[Len(ds)])

\* parseInt(s, 10): leading white space is skipped, a sign is read, then the
\* digits up to the first character that is no digit; NaN when there is none.
parseInt(cs) ==
    LET t == TrimStart(cs)
        signed == t # <<>> /\ Head(t) \in {"+", "-"}
        digits == DigitPrefix(IF signed THEN Tail(t) ELSE t)
    IN  IF digits = <<>> THEN JsNaN
        ELSE IF signed /\ Head(t) = "-" THEN JsInt(-DigitsValue(digits))
        ELSE JsInt(DigitsValue(digits))

\* The variables of the environment that override a bound, with the field of
\* the constraint set each of them overrides, in the order they are read.
EnvironmentSettings == <<"MCP_MIN_WIDTH", "MCP_MAX_WIDTH", "MCP_MIN_HEIGHT", "MCP_MAX_HEIGHT">>

EnvironmentFields == <<"minWidth", "maxWidth", "minHeight", "maxHeight">>

\* new ConfigurationError(setting, value, expectedFormat)
ConfigurationError(setting) == Throw("ConfigurationError", setting)

\* The variable of env at position i is read: it is set to a non-empty string.
EnvironmentRead(env, i) == Truthy(env[i])

\* isNaN(parsed) || parsed < 1
EnvironmentRejected(env, i) ==
    LET parsed == parseInt(env[i].s)
    IN  IsNaN(parsed) \/ parsed.n < 1

\* getEnvironmentConstraints(): the error of the first variable rejected, or
\* the partial constraint set of the variables that are set.
getEnvironmentConstraints(env) ==
    LET bad == {i \in 1..4 : EnvironmentRead(env, i) /\ EnvironmentRejected(env, i)}
        first == CHOOSE i \in bad : \A j \in bad : i <= j
        read == {i \in 1..4 : EnvironmentRead(env, i)}
    IN  IF bad # {}
        THEN [err |-> ConfigurationError(EnvironmentSettings[first]),
              constraints |-> << >>]
        ELSE [err |-> Completed,
              constraints |->
                  [f \in {EnvironmentFields[i] : i \in read} |->
                      parseInt(env[CHOOSE i \in read : EnvironmentFields[i] = f].s).n]]

\* createValidationConstraints() in an environment: { ...DEFAULT_CONSTRAINTS,
\* ...envConstraints }, then the relation of each pair of bounds.
createValidationConstraintsIn(env) ==
    LET envConstraints == getEnvironmentConstraints(env)
        merged == updateConstraints(DEFAULT_CONSTRAINTS, envConstraints.constraints)
    IN  IF Threw(envConstraints.err)
        THEN [err |-> envConstraints.err, constraints |-> DEFAULT_CONSTRAINTS]
        ELSE IF merged.minWidth > merged.maxWidth
        THEN [err |-> ConfigurationError("width constraints"),
              constraints |-> DEFAULT_CONSTRAINTS]
        ELSE IF merged.minHeight > merged.maxHeight
        THEN [err |-> ConfigurationError("height constraints"),
              constraints |-> DEFAULT_CONSTRAINTS]
        ELSE [err |-> Completed, constraints |-> merged]

----------------------------------------------------------------------------
\* The legacy entry point of the package

\* The tokens of a URL template.
s_token_baseUrl == <<"{", "b", "a", "s", "e", "U", "r", "l", "}">>
s_token_width == <<"{", "w", "i", "d", "t", "h", "}">>
s_token_height == <<"{", "h", "e", "i", "g", "h", "t", "}">>

DEFAULT_PROVIDER_CONFIG ==
    [p \in {s_placehold, s_lorem_picsum} |->
        IF p = s_placehold
        THEN [baseUrl |-> s_https_placehold_co,
              urlTemplate |-> s_token_baseUrl \o <<"/">> \o s_token_width
                              \o <<"x">> \o s_token_height]
        ELSE [baseUrl |-> s_https_picsum_photos,
              urlTemplate |-> s_token_baseUrl \o <<"/">> \o s_token_width
                              \o <<"/">> \o s_token_height]]

\* createValidationConstraints() with no MCP_* variable set in the
\* environment: the defaults.
createValidationConstraints == DEFAULT_CONSTRAINTS

\* Mutant: the legacy entry point handing the request to the provider's
\* builder.
image_placeholder_ViaBuilder(provider, width, height) ==
    LET checked ==
            validateParams(createValidationConstraints,
                           [def |-> TRUE, provider |-> provider, width |-> width,
                            height |-> height,
                            placeholdOptions |-> NoPlaceholdOptions,
                            picsumOptions |-> NoPicsumOptions])
    IN  IF Threw(checked) THEN checked
        ELSE buildUrl(createBuilder(provider), width, height,
                      IF provider = JsStr(s_placehold)
                      THEN NoPlaceholdOptions ELSE NoPicsumOptions)

\* image_placeholder(provider, width, height): width and height are numbers.
image_placeholder(provider, width, height) ==
    LET checked ==
            validateParams(createValidationConstraints,
                           [def |-> TRUE, provider |-> provider, width |-> width,
                            height |-> height,
                            placeholdOptions |-> NoPlaceholdOptions,
                            picsumOptions |-> NoPicsumOptions])
        known ==
            provider.k = "string" /\ provider.s \in DOMAIN DEFAULT_PROVIDER_CONFIG
        config == DEFAULT_PROVIDER_CONFIG[provider.s]
    IN  IF Threw(checked) THEN checked
        ELSE IF ~known THEN Throw("Error", "")
        ELSE Return(replace(replace(replace(config.urlTemplate,
                                            s_token_baseUrl, config.baseUrl),
                                    s_token_width, toString(width)),
                            s_token_height, toString(height)))

----------------------------------------------------------------------------
\* Bounds and the inputs the calls are drawn from.

MaxUpdates == 1

\* updateConstraints calls in a behaviour of the validator alone.
MaxReconfigurations == 2

\* Changes a caller makes to an object it got from getConstraints.
MaxModifications == 1

PlaceholdOptions(format, backgroundColor, textColor, customText, font, retina) ==
    [def |-> TRUE, format |-> format, backgroundColor |-> backgroundColor,
     textColor |-> textColor, customText |-> customText, font |-> font,
     retina |-> retina]

PicsumOptions(format, imageId, seed, grayscale, blur, random) ==
    [def |-> TRUE, format |-> format, imageId |-> imageId, seed |-> seed,
     grayscale |-> grayscale, blur |-> blur, random |-> random]

Strs(S) == {JsStr(cs) : cs \in S}

Ints(S) == {JsInt(i) : i \in S}

FontNames == {supportedFonts[i] : i \in 1..Len(supportedFonts)}

\* Options objects varying every field but the font over valid, invalid,
\* empty and missing values.
PlaceholdOptionsRich ==
    {PlaceholdOptions(f, bg, tc, ct, fo, re) :
        f \in {Undefined} \cup Strs({<<>>, s_svg, s_png}),
        bg \in {Undefined} \cup Strs({<<>>, s_f9fafb, s_zzz}),
        tc \in {Undefined} \cup Strs({s_2563eb, s_zzz}),
        ct \in {Undefined} \cup Strs({s_Hello_World}),
        fo \in {Undefined} \cup Strs({s_playfair_display}),
        re \in {Undefined} \cup Strs({s_2x, s_3x, s_4x})}

\* Options objects varying the font over every supported font, an unsupported
\* one and the empty string.
PlaceholdOptionsFonts ==
    {PlaceholdOptions(f, Undefined, Undefined, ct, fo, Undefined) :
        f \in {Undefined} \cup Strs({s_png, s_bmp}),
        ct \in {Undefined} \cup Strs({s_DeepakNess}),
        fo \in Strs(FontNames \cup {s_arial, <<>>})}

\* The full-featured request of the documentation.
DocExampleOptions ==
    PlaceholdOptions(JsStr(s_png), JsStr(s_f9fafb), JsStr(s_2563eb),
                     JsStr(s_DeepakNess), JsStr(s_playfair_display),
                     JsStr(s_2x))

\* Custom texts: empty, blanks, newlines, and characters a URL reserves.
CustomTexts ==
    {<<>>, <<" ">>, <<"a", " ", " ", "b", " ", "c">>, <<"H", "e", "l", "l", "o", "\n", "W", "o", "r", "l", "d">>,
     <<" ", "a", "\n", "\n", "b", " ">>, <<"5", "0", "%", " ", "#", "1", "+", "a", "/", "b", "=", "c">>}

\* Options objects varying the custom text, with a font or without.
PlaceholdOptionsTexts ==
    {PlaceholdOptions(Undefined, Undefined, Undefined, JsStr(ct), fo, Undefined) :
        ct \in CustomTexts,
        fo \in {Undefined, JsStr(s_playfair_display)}}

\* Color values: hexadecimal codes of 3 and 6 digits with # and without, of
\* 4 and 5 digits, keywords of the list in several cases, a CSS keyword the
\* list does not hold, and a word that is no color.
ColorValues ==
    {<<"#", "f", "f", "f">>, s_f9fafb, <<"F", "F", "F">>, <<"f", "f", "f", "f">>,
     <<"#", "1", "2", "3", "4", "5">>, s_Red, <<"N", "A", "V", "Y">>, s_transparent,
     <<"T", "r", "a", "n", "s", "p", "a", "r", "e", "n", "t">>, <<"c", "r", "i", "m", "s", "o", "n">>, s_zzz}

\* Options objects with both colors, over every pair of color values.
PlaceholdOptionsColors ==
    {PlaceholdOptions(Undefined, JsStr(bg), JsStr(tc), Undefined, Undefined,
                      Undefined) :
        bg \in ColorValues, tc \in ColorValues}

PlaceholdOptionsSet ==
    {NoPlaceholdOptions, DocExampleOptions}
    \cup PlaceholdOptionsRich \cup PlaceholdOptionsFonts
    \cup PlaceholdOptionsTexts \cup PlaceholdOptionsColors

\* Options objects varying the image selectors and the format.
PicsumOptionsSelectors ==
    {PicsumOptions(f, id, sd, gs, Undefined, Undefined) :
        f \in {Undefined} \cup Strs({<<>>, s_jpg, s_webp, s_png}),
        id \in {Undefined, JsFrac(2)} \cup Ints({-1, 0, 237}),
        sd \in {Undefined} \cup Strs({<<>>, s_blank, s_picsum, s_my_seed}),
        gs \in {Undefined, JsBool(TRUE)}}

\* Options objects varying the effects.
PicsumOptionsEffects ==
    {PicsumOptions(Undefined, id, Undefined, gs, bl, rn) :
        id \in {Undefined} \cup Ints({237}),
        gs \in {Undefined, JsBool(TRUE), JsBool(FALSE)},
        bl \in {Undefined, JsFrac(2)} \cup Ints({-1, 0, 1, 2, 10, 11}),
        rn \in {Undefined, JsFrac(5)} \cup Ints({-1, 0, 5})}

\* A request combining a format, an image id and every effect.
PicsumFullOptions ==
    PicsumOptions(JsStr(s_webp), JsInt(237), Undefined, JsBool(TRUE), JsInt(2),
                  JsInt(5))

PicsumOptionsSet ==
    {NoPicsumOptions, PicsumFullOptions}
    \cup PicsumOptionsSelectors \cup PicsumOptionsEffects

\* <<width, height>> pairs the builders are called with directly.
BuilderDimensions ==
    {<<JsInt(300), Undefined>>, <<JsInt(300), JsInt(300)>>,
     <<JsInt(1200), JsInt(630)>>, <<JsInt(9), Undefined>>,
     <<JsInt(300), JsInt(4001)>>}

RequestProviders ==
    {Undefined} \cup Strs({<<>>, s_placehold, s_lorem_picsum, s_unsplash})

RequestWidths ==
    {Undefined, JsNaN, JsFrac(100)}
    \cup Ints({0, 1, 9, 10, 300, 4000, 4001, 10000, 10001})

RequestHeights ==
    {Undefined, JsFrac(100)}
    \cup Ints({0, 1, 9, 10, 200, 300, 4000, 4001, 10000, 10001})

RequestPlaceholdOptions ==
    {NoPlaceholdOptions, DocExampleOptions,
     PlaceholdOptions(Undefined, Undefined, Undefined, Undefined, Undefined,
                      Undefined),
     PlaceholdOptions(Undefined, JsStr(s_Red), Undefined, Undefined, Undefined,
                      Undefined),
     PlaceholdOptions(Undefined, Undefined, Undefined, Undefined,
                      JsStr(s_source_sans_pro), JsStr(s_3x))}

RequestPicsumOptions ==
    {NoPicsumOptions,
     PicsumOptions(Undefined, Undefined, Undefined, Undefined, Undefined,
                   Undefined),
     PicsumOptions(Undefined, Undefined, Undefined, JsBool(TRUE), Undefined,
                   Undefined),
     PicsumOptions(JsStr(s_webp), JsInt(0), Undefined, Undefined, JsInt(1),
                   JsInt(0)),
     PicsumOptions(Undefined, JsInt(237), JsStr(s_picsum), Undefined, Undefined,
                   Undefined)}

Request(provider, width, height, po, qo) ==
    [def |-> TRUE, provider |-> provider, width |-> width, height |-> height,
     placeholdOptions |-> po, picsumOptions |-> qo]

\* Requests without options, over every provider, width and height.
RequestsOverDimensions ==
    {Request(p, w, h, NoPlaceholdOptions, NoPicsumOptions) :
        p \in RequestProviders, w \in RequestWidths, h \in RequestHeights}

\* Requests with options, matching the provider or not.
RequestsOverOptions ==
    {Request(p, d[1], d[2], po, qo) :
        p \in Strs({s_placehold, s_lorem_picsum}),
        d \in {<<JsInt(300), Undefined>>, <<JsInt(300), JsInt(200)>>,
               <<JsInt(400), JsInt(300)>>, <<JsInt(1200), JsInt(630)>>},
        po \in RequestPlaceholdOptions, qo \in RequestPicsumOptions}

Requests == {NoParams} \cup RequestsOverDimensions \cup RequestsOverOptions

\* Partial constraint sets passed to updateConstraints.
PartialConstraints ==
    {[minWidth |-> 20, maxWidth |-> 20000],
     [supportedProviders |-> <<s_placehold, s_lorem_picsum, s_unsplash>>]}

\* Partial constraint sets that narrow, invert and widen the ranges, after the
\* tests of updateConstraints.
ValidatorPartials ==
    {[maxWidth |-> 500],
     [minWidth |-> 600],
     [minHeight |-> 50, maxHeight |-> 60],
     [supportedProviders |-> <<s_placehold, s_lorem_picsum, s_unsplash>>]}

\* Requests validateParams is called with directly: every kind of provider
\* value, and widths and heights on both sides of every bound the partial
\* sets can give.
\* Requests that violate several rules at once.
ValidatorRequestsSeveral ==
    {Request(p, w, h, NoPlaceholdOptions, qo) :
        p \in {Undefined} \cup Strs({s_unsplash, s_placehold}),
        w \in {JsNaN, JsInt(0), JsInt(300)},
        h \in {Undefined, JsInt(0)},
        qo \in {NoPicsumOptions,
                PicsumOptions(Undefined, Undefined, Undefined, JsBool(TRUE),
                              Undefined, Undefined)}}

ValidatorRequests ==
    {NoParams,
     Request(JsStr(s_placehold), JsInt(300), Undefined, NoPlaceholdOptions,
             PicsumOptions(Undefined, Undefined, Undefined, JsBool(TRUE),
                           Undefined, Undefined))}
    \cup {Request(p, JsInt(300), h, NoPlaceholdOptions, NoPicsumOptions) :
            p \in {Undefined, JsInt(5), JsBool(TRUE)}
                  \cup Strs({<<>>, s_placehold, s_lorem_picsum, s_unsplash}),
            h \in {Undefined, JsInt(55)}}
    \cup {Request(JsStr(s_placehold), w, h, NoPlaceholdOptions, NoPicsumOptions) :
            w \in {Undefined, JsNaN, JsFrac(300), JsStr(<<"3", "0", "0">>)}
                  \cup Ints({0, 1, 500, 501, 599, 600, 10000, 10001}),
            h \in {Undefined, JsInt(55)}}
    \cup {Request(JsStr(s_lorem_picsum), w, h, NoPlaceholdOptions, NoPicsumOptions) :
            w \in Ints({300, 700}),
            h \in {JsNaN, JsFrac(55), JsStr(<<"5", "5">>)}
                  \cup Ints({0, 1, 49, 50, 60, 61, 10000, 10001})}
    \cup ValidatorRequestsSeveral

\* The values of the variables of the environment: not set, empty, no number,
\* numbers below 1, numbers from 1 up, and a number followed by letters.
EnvironmentWidths ==
    {Undefined}
    \cup Strs({<<>>, <<"a", "b", "c">>, <<"0">>, <<"-", "5">>, <<"1">>, <<"5", "0", "0">>,
              <<"2", "0", "0", "0", "0">>, <<"1", "2", "a", "b", "c">>})

EnvironmentHeights ==
    {Undefined} \cup Strs({<<"0">>, <<"3", "0", "0">>, <<"1", "0", "0", "0", "1">>, <<"1", "0", "0", "0", "0">>})

\* <<MCP_MIN_WIDTH, MCP_MAX_WIDTH, MCP_MIN_HEIGHT, MCP_MAX_HEIGHT>>
Environments ==
    {<<a, b, c, d>> : a \in EnvironmentWidths, b \in EnvironmentWidths,
                      c \in EnvironmentHeights, d \in EnvironmentHeights}

\* The tool names of call-tool requests: the tool of the server, another
\* name, no name.
ToolNames == {s_image_placeholder, s_list_providers, <<>>}

\* The arguments of call-tool requests: none, requests that succeed, requests
\* the validator refuses, one the builder refuses, and a seed that cannot be
\* encoded.
ToolArguments ==
    {NoParams,
     Request(JsStr(s_placehold), JsInt(300), JsInt(200), NoPlaceholdOptions,
             NoPicsumOptions),
     Request(JsStr(s_placehold), JsInt(1200), JsInt(630), DocExampleOptions,
             NoPicsumOptions),
     Request(JsStr(s_lorem_picsum), JsInt(400), JsInt(300), NoPlaceholdOptions,
             PicsumOptions(Undefined, Undefined, JsStr(s_picsum), Undefined,
                           Undefined, Undefined)),
     Request(JsStr(s_lorem_picsum), JsInt(400), JsInt(300), NoPlaceholdOptions,
             PicsumOptions(Undefined, Undefined, JsStr(<<"a", LoneSurrogate>>),
                           Undefined, Undefined, Undefined)),
     Request(JsStr(s_placehold), JsInt(0), JsInt(100), NoPlaceholdOptions,
             NoPicsumOptions),
     Request(JsStr(s_placehold), JsInt(5), JsInt(5), NoPlaceholdOptions,
             NoPicsumOptions),
     Request(JsStr(s_unsplash), JsInt(300), JsInt(200), NoPlaceholdOptions,
             NoPicsumOptions),
     Request(JsStr(s_placehold), JsInt(300), JsInt(200), NoPlaceholdOptions,
             PicsumFullOptions)}

\* The arguments of the legacy entry point: every provider string, and numbers
\* on both sides of the default bounds, whole and not.
LegacyProviders == Strs({<<>>, s_placehold, s_lorem_picsum, s_unsplash})

LegacyDimensions ==
    {JsNaN, JsFrac(100)} \cup Ints({-100, 0, 1, 300, 400, 10000, 10001})

\* Requests made more than once: valid ones for both providers, and invalid
\* ones whose check moves when the constraints change.
RepeatedRequests ==
    {Request(JsStr(s_placehold), JsInt(300), Undefined, NoPlaceholdOptions,
             NoPicsumOptions),
     Request(JsStr(s_placehold), JsInt(1200), JsInt(630), DocExampleOptions,
             NoPicsumOptions),
     Request(JsStr(s_lorem_picsum), JsInt(400), JsInt(300), NoPlaceholdOptions,
             PicsumFullOptions),
     Request(JsStr(s_placehold), JsInt(10), Undefined, NoPlaceholdOptions,
             NoPicsumOptions),
     Request(JsStr(s_placehold), JsInt(10001), Undefined, NoPlaceholdOptions,
             NoPicsumOptions),
     Request(JsStr(s_unsplash), JsInt(300), Undefined, NoPlaceholdOptions,
             NoPicsumOptions),
     Request(JsStr(s_unsplash), JsInt(0), Undefined, NoPlaceholdOptions,
             NoPicsumOptions)}

\* <<width, height, options>> of the placehold builder calls made more than once.
RepeatedPlaceholdBuilds ==
    {<<JsInt(300), Undefined, NoPlaceholdOptions>>,
     <<JsInt(1200), JsInt(630), DocExampleOptions>>,
     <<JsInt(9), Undefined, NoPlaceholdOptions>>}

\* <<width, height, options>> of the picsum builder calls made more than once.
RepeatedPicsumBuilds ==
    {<<JsInt(400), JsInt(300), PicsumFullOptions>>,
     <<JsInt(300), Undefined, NoPicsumOptions>>,
     <<JsInt(300), Undefined,
       PicsumOptions(Undefined, Undefined, Undefined, Undefined, JsInt(0),
                     Undefined)>>}

\* The values a caller assigns to a bound of the object it got.
CopyBoundValues == {5000}

\* The provider names a caller pushes onto, or assigns to, its supportedProviders.
CopyProviders == {s_unsplash}

----------------------------------------------------------------------------
\* The state machine: a caller makes one call at a time; each call runs to
\* its outcome in one step and the caller then takes the outcome.

NoCall == [op |-> "none", params |-> NoParams]

NoOutcome ==
    [kind |-> "none", field |-> "", message |-> <<>>, url |-> <<>>,
     rec |-> NoRecord]

\* No getConstraints call has been made yet.  value is the object the caller
\* got; sharesProviders tells that its supportedProviders is the very array
\* the validator holds; modifications counts the changes callers have made
\* to the objects they got.
NoCopy ==
    [held |-> FALSE, value |-> DEFAULT_CONSTRAINTS, sharesProviders |-> FALSE,
     modifications |-> 0]

\* No call is remembered.
NoMemo == [call |-> NoCall, constraints |-> DEFAULT_CONSTRAINTS, outcome |-> NoOutcome]

BuilderCall(op, provider, width, height, po, qo) ==
    [op |-> op,
     params |-> [def |-> TRUE, provider |-> JsStr(provider), width |-> width,
                 height |-> height, placeholdOptions |-> po,
                 picsumOptions |-> qo]]

Init ==
    /\ constraints = DEFAULT_CONSTRAINTS
    /\ updates = 0
    /\ pc = "idle"
    /\ call = NoCall
    /\ outcome = NoOutcome
    /\ steps = <<>>
    /\ copy = NoCopy
    /\ memo = NoMemo

\* generator.generatePlaceholder(params)
GeneratePlaceholderOf(params) ==
    /\ pc = "idle"
    /\ call' = [op |-> "generatePlaceholder", params |-> params]
    /\ outcome' = generatePlaceholder(constraints, params)
    /\ steps' = generatePlaceholderSteps(constraints, params)
    /\ pc' = "returned"
    /\ UNCHANGED <<constraints, updates, copy, memo>>

GeneratePlaceholder == \E params \in Requests : GeneratePlaceholderOf(params)

\* new PlaceholdUrlBuilder(baseUrl, logger).buildUrl(width, height, options)
PlaceholdBuildOf(width, height, options) ==
    /\ pc = "idle"
    /\ call' = BuilderCall("placehold.buildUrl", s_placehold, width, height,
                           options, NoPicsumOptions)
    /\ outcome' = PlaceholdBuildUrl(PROVIDER_CONFIGS[s_placehold], width, height,
                                    options)
    /\ steps' = <<>>
    /\ pc' = "returned"
    /\ UNCHANGED <<constraints, updates, copy, memo>>

PlaceholdBuild ==
    \E d \in BuilderDimensions, options \in PlaceholdOptionsSet :
        PlaceholdBuildOf(d[1], d[2], options)

\* new PicsumUrlBuilder(baseUrl, logger).buildUrl(width, height, options)
PicsumBuildOf(width, height, options) ==
    /\ pc = "idle"
    /\ call' = BuilderCall("picsum.buildUrl", s_lorem_picsum, width, height,
                           NoPlaceholdOptions, options)
    /\ outcome' = PicsumBuildUrl(PROVIDER_CONFIGS[s_lorem_picsum], width, height,
                                 options)
    /\ steps' = <<>>
    /\ pc' = "returned"
    /\ UNCHANGED <<constraints, updates, copy, memo>>

PicsumBuild ==
    \E d \in BuilderDimensions, options \in PicsumOptionsSet :
        PicsumBuildOf(d[1], d[2], options)

PlaceholdValidate ==
    \E options \in PlaceholdOptionsSet :
        /\ pc = "idle"
        /\ call' = BuilderCall("placehold.validateOptions", s_placehold,
                               Undefined, Undefined, options, NoPicsumOptions)
        /\ outcome' = PlaceholdValidateOptions(options)
        /\ steps' = <<>>
        /\ pc' = "returned"
        /\ UNCHANGED <<constraints, updates, copy, memo>>

PicsumValidate ==
    \E options \in PicsumOptionsSet :
        /\ pc = "idle"
        /\ call' = BuilderCall("picsum.validateOptions", s_lorem_picsum,
                               Undefined, Undefined, NoPlaceholdOptions, options)
        /\ outcome' = PicsumValidateOptions(options)
        /\ steps' = <<>>
        /\ pc' = "returned"
        /\ UNCHANGED <<constraints, updates, copy, memo>>

\* validator.updateConstraints(newConstraints), at most limit times.  A partial
\* that names supportedProviders makes the validator hold the partial's array:
\* an object handed out by getConstraints before keeps the array held until now.
UpdateConstraintsWith(newConstraints, limit) ==
    /\ pc = "idle"
    /\ updates < limit
    /\ constraints' = updateConstraints(constraints, newConstraints)
    /\ updates' = updates + 1
    /\ copy' = IF "supportedProviders" \in DOMAIN newConstraints
               THEN [copy EXCEPT !.sharesProviders = FALSE]
               ELSE copy
    /\ UNCHANGED <<pc, call, outcome, steps, memo>>

UpdateConstraints ==
    \E newConstraints \in PartialConstraints :
        UpdateConstraintsWith(newConstraints, MaxUpdates)

\* A call-tool request handled by the server's handler.
CallTool ==
    \E toolName \in ToolNames, arguments \in ToolArguments :
        /\ pc = "idle"
        /\ call' = [op |-> "callTool", params |-> arguments, name |-> toolName]
        /\ outcome' = callTool(constraints, toolName, arguments)
        /\ steps' = callToolSteps(constraints, toolName, arguments)
        /\ pc' = "returned"
        /\ UNCHANGED <<constraints, updates, copy, memo>>

\* image_placeholder(provider, width, height), the legacy entry point: it makes
\* its own validator from the default constraints.
LegacyImagePlaceholder ==
    \E provider \in LegacyProviders, width \in LegacyDimensions,
       height \in LegacyDimensions :
        /\ pc = "idle"
        /\ call' = [op |-> "image_placeholder",
                    params |-> Request(provider, width, height,
                                       NoPlaceholdOptions, NoPicsumOptions)]
        /\ outcome' = image_placeholder(provider, width, height)
        /\ steps' = <<"validateParams">>
        /\ pc' = "returned"
        /\ UNCHANGED <<constraints, updates, copy, memo>>

\* The caller takes the outcome of the call; the next call can be made.
TakeOutcome ==
    /\ pc = "returned"
    /\ pc' = "idle"
    /\ call' = NoCall
    /\ outcome' = NoOutcome
    /\ steps' = <<>>
    /\ UNCHANGED <<constraints, updates, copy, memo>>

Next ==
    \/ GeneratePlaceholder
    \/ PlaceholdBuild
    \/ PicsumBuild
    \/ PlaceholdValidate
    \/ PicsumValidate
    \/ UpdateConstraints
    \/ LegacyImagePlaceholder
    \/ CallTool
    \/ TakeOutcome

Spec == Init /\ [][Next]_vars

----------------------------------------------------------------------------
\* Calls repeated: the same builder and the same generator are called again
\* with arguments they were called with before, other calls and
\* updateConstraints coming in between; the caller remembers an earlier call
\* with its outcome.

RepeatGenerate == \E params \in RepeatedRequests : GeneratePlaceholderOf(params)

RepeatPlaceholdBuild ==
    \E b \in RepeatedPlaceholdBuilds : PlaceholdBuildOf(b[1], b[2], b[3])

RepeatPicsumBuild ==
    \E b \in RepeatedPicsumBuilds : PicsumBuildOf(b[1], b[2], b[3])

\* The caller notes the call, the constraints it ran under and its outcome.
Remember ==
    /\ pc = "returned"
    /\ memo' = [call |-> call, constraints |-> constraints, outcome |-> outcome]
    /\ UNCHANGED <<constraints, updates, pc, call, outcome, steps, copy>>

RepeatNext ==
    \/ RepeatGenerate
    \/ RepeatPlaceholdBuild
    \/ RepeatPicsumBuild
    \/ UpdateConstraints
    \/ Remember
    \/ TakeOutcome

RepeatSpec == Init /\ [][RepeatNext]_vars

----------------------------------------------------------------------------
\* An asynchronous host: the handler awaits generatePlaceholder, and the host
\* runs other work, updateConstraints calls among it, whenever a call in
\* flight has given up control.

\* The checks of validateParams, in the order it makes them.
validateParamsChecks == <<"params", "provider", "width", "height", "providerOptions">>

validateParamsCheck(c, params, check) ==
    CASE check = "params" ->
           IF ~params.def THEN ValidationError("params") ELSE Completed
      [] check = "provider" -> validateProvider(c, params.provider)
      [] check = "width" -> validateDimension(c, "width", params.width)
      [] check = "height" ->
           IF params.height # Undefined
           THEN validateDimension(c, "height", params.height)
           ELSE Completed
      [] check = "providerOptions" -> validateProviderOptions(params)

\* The body of generatePlaceholder after validateParams: the builder is made
\* and builds the URL; nothing here reads the constraint set.
generatePlaceholderBuild(params) ==
    LET urlBuilder == createBuilder(params.provider)
        built ==
            IF params.provider = JsStr(s_placehold)
            THEN buildUrl(urlBuilder, params.width, params.height,
                          params.placeholdOptions)
            ELSE IF params.provider = JsStr(s_lorem_picsum)
            THEN buildUrl(urlBuilder, params.width, params.height,
                          params.picsumOptions)
            ELSE ProviderError(params.provider, s_Unsupported_provider)
        effectiveHeight ==
            IF Truthy(params.height) THEN params.height ELSE params.width
    IN  IF Threw(urlBuilder.err) THEN urlBuilder.err
        ELSE IF Threw(built) THEN built
        ELSE [kind |-> "return", field |-> "", message |-> <<>>,
              url |-> built.url,
              rec |-> [provider |-> params.provider,
                       width |-> params.width,
                       height |-> effectiveHeight,
                       placeholdOptions |-> params.placeholdOptions,
                       picsumOptions |-> params.picsumOptions]]

\* Mutant: control given up once the provider is checked, as an await between
\* the checks would do.
SuspendsAfter_Provider(check) == check = "provider"

\* Whether generatePlaceholder gives up control after a check: its body holds
\* no await, and validateParams is a plain method.
SuspendsAfter(check) == FALSE

\* generatePlaceholder run from the given checks on, against the set c, until
\* it throws, returns or gives up control.
RECURSIVE generatePlaceholderRun(_, _, _)
generatePlaceholderRun(c, params, checks) ==
    IF checks = <<>>
    THEN [settled |-> TRUE, outcome |-> generatePlaceholderBuild(params),
          rest |-> <<>>]
    ELSE LET checked == validateParamsCheck(c, params, Head(checks))
         IN  IF Threw(checked)
             THEN [settled |-> TRUE, outcome |-> checked, rest |-> <<>>]
             ELSE IF SuspendsAfter(Head(checks))
             THEN [settled |-> FALSE, outcome |-> NoOutcome,
                   rest |-> Tail(checks)]
             ELSE generatePlaceholderRun(c, params, Tail(checks))

\* The partial sets the host's updateConstraints calls bring: ranges widened
\* and narrowed, providers added and taken away.
HostPartials ==
    PartialConstraints
        \cup {[maxWidth |-> 200], [supportedProviders |-> <<s_lorem_picsum>>]}

\* The handler calls generatePlaceholder and awaits it: the body runs at once
\* as far as it goes, and the handler goes on in a later turn of the host.
\* memo holds the call with the constraint set held when it started.
HostGenerate ==
    \E params \in RepeatedRequests :
        LET run == generatePlaceholderRun(constraints, params,
                                          validateParamsChecks)
            started == [op |-> "generatePlaceholder", params |-> params]
        IN  /\ pc = "idle"
            /\ call' = started
            /\ memo' = [call |-> started, constraints |-> constraints,
                        outcome |-> NoOutcome]
            /\ outcome' = run.outcome
            /\ steps' = run.rest
            /\ pc' = IF run.settled THEN "settled" ELSE "suspended"
            /\ UNCHANGED <<constraints, updates, copy>>

\* The host runs the continuation of the call in flight: a settled call hands
\* its outcome to the awaiting handler, a suspended one runs on against the
\* set held now.
HostContinue ==
    /\ pc \in {"settled", "suspended"}
    /\ IF pc = "settled"
       THEN /\ pc' = "returned"
            /\ UNCHANGED <<outcome, steps>>
       ELSE LET run == generatePlaceholderRun(constraints, call.params, steps)
            IN  /\ outcome' = run.outcome
                /\ steps' = run.rest
                /\ pc' = IF run.settled THEN "settled" ELSE "suspended"
    /\ UNCHANGED <<constraints, updates, call, copy, memo>>

\* validator.updateConstraints(newConstraints) run by the host between two
\* turns: before a call, or while a call in flight waits for its continuation.
HostUpdateConstraints ==
    \E newConstraints \in HostPartials :
        /\ pc \in {"idle", "settled", "suspended"}
        /\ updates < MaxUpdates
        /\ constraints' = updateConstraints(constraints, newConstraints)
        /\ updates' = updates + 1
        /\ UNCHANGED <<pc, call, outcome, steps, copy, memo>>

HostNext ==
    \/ HostGenerate
    \/ HostContinue
    \/ HostUpdateConstraints
    \/ TakeOutcome

HostSpec == Init /\ [][HostNext]_vars

----------------------------------------------------------------------------
\* Start-up: the constraint set is made from the environment; a
\* configuration error ends the start-up.

\* The constraint set createValidationConstraints returned.
ConfigResult(created) ==
    [kind |-> "return", field |-> "", message |-> <<>>, url |-> <<>>,
     rec |-> NoRecord, constraints |-> created]

CreateValidationConstraints ==
    \E env \in Environments :
        LET created == createValidationConstraintsIn(env)
        IN  /\ pc = "idle"
            /\ call' = [op |-> "createValidationConstraints",
                        params |-> NoParams, env |-> env]
            /\ outcome' = IF Threw(created.err) THEN created.err
                          ELSE ConfigResult(created.constraints)
            /\ steps' = <<>>
            /\ pc' = "returned"
            /\ UNCHANGED <<constraints, updates, copy, memo>>

ConfigNext ==
    \/ CreateValidationConstraints
    \/ TakeOutcome

ConfigSpec == Init /\ [][ConfigNext]_vars

----------------------------------------------------------------------------
\* The validator on its own: validateParams, updateConstraints and
\* getConstraints called directly, and the caller of getConstraints changing
\* the object it got.

ValidateParams ==
    \E params \in ValidatorRequests :
        /\ pc = "idle"
        /\ call' = [op |-> "validateParams", params |-> params]
        /\ outcome' = validateParams(constraints, params)
        /\ steps' = <<>>
        /\ pc' = "returned"
        /\ UNCHANGED <<constraints, updates, copy, memo>>

Reconfigure ==
    \E newConstraints \in ValidatorPartials :
        UpdateConstraintsWith(newConstraints, MaxReconfigurations)

GetConstraints ==
    /\ pc = "idle"
    /\ copy' = [held |-> TRUE, value |-> getConstraints(constraints),
                sharesProviders |-> TRUE,
                modifications |-> copy.modifications]
    /\ UNCHANGED <<constraints, updates, pc, call, outcome, steps, memo>>

\* returned.minWidth = v and the like: a field of the caller's own object.
AssignCopyBound ==
    \E f \in {"minWidth", "maxWidth", "minHeight", "maxHeight"},
       v \in CopyBoundValues :
        /\ pc = "idle"
        /\ copy.held
        /\ copy.modifications < MaxModifications
        /\ copy' = [copy EXCEPT !.value[f] = v, !.modifications = @ + 1]
        /\ UNCHANGED <<constraints, updates, pc, call, outcome, steps, memo>>

\* returned.supportedProviders = [p]: the caller's object gets an array of its own.
AssignCopyProviders ==
    \E p \in CopyProviders :
        /\ pc = "idle"
        /\ copy.held
        /\ copy.modifications < MaxModifications
        /\ copy' = [copy EXCEPT !.value.supportedProviders = <<p>>,
                                !.sharesProviders = FALSE,
                                !.modifications = @ + 1]
        /\ UNCHANGED <<constraints, updates, pc, call, outcome, steps, memo>>

\* returned.supportedProviders.push(p): the array is changed in place, and it
\* is the validator's array as long as the two objects share it.
PushCopyProvider ==
    \E p \in CopyProviders :
        /\ pc = "idle"
        /\ copy.held
        /\ copy.modifications < MaxModifications
        /\ copy' = [copy EXCEPT !.value.supportedProviders = Append(@, p),
                                !.modifications = @ + 1]
        /\ constraints' =
              IF copy.sharesProviders
              THEN [constraints EXCEPT !.supportedProviders = Append(@, p)]
              ELSE constraints
        /\ UNCHANGED <<updates, pc, call, outcome, steps, memo>>

\* returned.supportedProviders.length = 0: emptied in place.
ClearCopyProviders ==
    /\ pc = "idle"
    /\ copy.held
    /\ copy.modifications < MaxModifications
    /\ copy' = [copy EXCEPT !.value.supportedProviders = <<>>,
                            !.modifications = @ + 1]
    /\ constraints' =
          IF copy.sharesProviders
          THEN [constraints EXCEPT !.supportedProviders = <<>>]
          ELSE constraints
    /\ UNCHANGED <<updates, pc, call, outcome, steps, memo>>

ModifyCopy ==
    \/ AssignCopyBound
    \/ AssignCopyProviders
    \/ PushCopyProvider
    \/ ClearCopyProviders

ValidatorNext ==
    \/ ValidateParams
    \/ Reconfigure
    \/ GetConstraints
    \/ ModifyCopy
    \/ TakeOutcome

ValidatorSpec == Init /\ [][ValidatorNext]_vars

----------------------------------------------------------------------------
\* Vocabulary of the properties.

StartsWith(cs, prefix) ==
    Len(cs) >= Len(prefix) /\ SubSeq(cs, 1, Len(prefix)) = prefix

Contains(cs, sub) ==
    \E i \in 1..(Len(cs) - Len(sub) + 1) : SubSeq(cs, i, i + Len(sub) - 1) = sub

\* What follows a prefix the sequence starts with.
After(cs, prefix) == SubSeq(cs, Len(prefix) + 1, Len(cs))

\* The pieces of cs between the occurrences of the character ch.
RECURSIVE SplitOn(_, _)
SplitOn(cs, ch) ==
    IF \A i \in 1..Len(cs) : cs[i] # ch THEN <<cs>>
    ELSE LET i == CHOOSE k \in 1..Len(cs) :
                      cs[k] = ch /\ \A j \in 1..(k - 1) : cs[j] # ch
         IN  <<SubSeq(cs, 1, i - 1)>> \o SplitOn(SubSeq(cs, i + 1, Len(cs)), ch)

\* The query parameters of a URL: the pieces, separated by &, of what
\* follows its first ?; none when it has no ?.
QueryParamsOf(url) ==
    LET parts == SplitOn(url, "?")
    IN  IF Len(parts) = 1 THEN <<>>
        ELSE SplitOn(SubSeq(url, Len(parts[1]) + 2, Len(url)), "&")

\* The URL without its query.
PathOf(url) == SplitOn(url, "?")[1]

\* The call op has run to its outcome.
Called(op) == pc = "returned" /\ call.op = op

Returned == outcome.kind = "return"

\* A string option is supplied when the options object holds a non-empty
\* string for it: the builders read an empty string as a missing option.
Supplied(v) == v.k = "string" /\ v.s # <<>>

PlaceholdBase == s_https_placehold_co

PicsumBase == s_https_picsum_photos

url_doc_example ==
    <<"h", "t", "t", "p", "s", ":", "/", "/", "p", "l", "a", "c", "e", "h",
    "o", "l", "d", ".", "c", "o", "/", "1", "2", "0", "0", "x", "6", "3",
    "0", "@", "2", "x", "/", "f", "9", "f", "a", "f", "b", "/", "2", "5",
    "6", "3", "e", "b", ".", "p", "n", "g", "?", "t", "e", "x", "t", "=",
    "D", "e", "e", "p", "a", "k", "N", "e", "s", "s", "&", "f", "o", "n",
    "t", "=", "p", "l", "a", "y", "f", "a", "i", "r", "+", "d", "i", "s",
    "p", "l", "a", "y">>

url_placehold_300 ==
    <<"h", "t", "t", "p", "s", ":", "/", "/", "p", "l", "a", "c", "e", "h",
    "o", "l", "d", ".", "c", "o", "/", "3", "0", "0">>

url_placehold_300x200 ==
    <<"h", "t", "t", "p", "s", ":", "/", "/", "p", "l", "a", "c", "e", "h",
    "o", "l", "d", ".", "c", "o", "/", "3", "0", "0", "x", "2", "0", "0">>

url_picsum_400_300 ==
    <<"h", "t", "t", "p", "s", ":", "/", "/", "p", "i", "c", "s", "u", "m",
    ".", "p", "h", "o", "t", "o", "s", "/", "4", "0", "0", "/", "3", "0",
    "0">>

----------------------------------------------------------------------------
\* C1

\* The value a URL gives to the query parameter that opens with name (text=
\* or font=), empty when its query has no such parameter.
C1_ValueOf(url, name) ==
    LET params == QueryParamsOf(url)
        found == {i \in 1..Len(params) : StartsWith(params[i], name)}
    IN  IF found = {} THEN <<>>
        ELSE After(params[CHOOSE i \in found : \A j \in found : i <= j], name)

\* The URL the placehold grammar gives: base, /width, [xheight], [@retina],
\* [/backgroundColor/textColor], [.format unless svg], [?text=..][&font=..],
\* the parameters carrying the values textValue and fontValue.
C1_Url(w, h, o, textValue, fontValue) ==
    LET text == Supplied(o.customText)
        font == Supplied(o.font) /\ o.font.s # s_lato
        t == s_text_eq \o textValue
        f == s_font_eq \o fontValue
    IN  PlaceholdBase \o <<"/">> \o IntToString(w.n)
        \o (IF h # Undefined /\ h # w THEN <<"x">> \o IntToString(h.n) ELSE <<>>)
        \o (IF Supplied(o.retina) THEN <<"@">> \o o.retina.s ELSE <<>>)
        \o (IF Supplied(o.backgroundColor) /\ Supplied(o.textColor)
            THEN <<"/">> \o o.backgroundColor.s \o <<"/">> \o o.textColor.s
            ELSE <<>>)
        \o (IF Supplied(o.format) /\ o.format.s # s_svg
            THEN <<".">> \o o.format.s
            ELSE <<>>)
        \o (CASE text /\ font -> <<"?">> \o t \o <<"&">> \o f
              [] text /\ ~font -> <<"?">> \o t
              [] ~text /\ font -> <<"?">> \o f
              [] OTHER -> <<>>)

\* C1: for every width, height and placehold options object that pass
\* validation, PlaceholdUrlBuilder.buildUrl returns exactly the URL of the
\* grammar, its components in the fixed order and text before font; the
\* documentation example gives
\* https://placehold.co/1200x630@2x/f9fafb/2563eb.png?text=DeepakNess&font=playfair+display.
C1_PlaceholdGrammar ==
    Called("placehold.buildUrl") =>
        LET w == call.params.width
            h == call.params.height
            o == call.params.placeholdOptions
        IN  /\ (~Threw(validateDimensions(w, h)) /\ ~Threw(PlaceholdValidateOptions(o)))
                => /\ Returned
                   /\ outcome.url
                        = C1_Url(w, h, o, C1_ValueOf(outcome.url, s_text_eq),
                                 C1_ValueOf(outcome.url, s_font_eq))
                   /\ Supplied(o.customText)
                        => C1_ValueOf(outcome.url, s_text_eq) # <<>>
                   /\ (Supplied(o.font) /\ o.font.s # s_lato)
                        => C1_ValueOf(outcome.url, s_font_eq) # <<>>
            /\ (w = JsInt(1200) /\ h = JsInt(630) /\ o = DocExampleOptions)
                => outcome = Return(url_doc_example)

C1_Witness ==
    /\ Called("placehold.buildUrl")
    /\ call.params.width = JsInt(1200)
    /\ call.params.height = JsInt(630)
    /\ call.params.placeholdOptions = DocExampleOptions
    /\ outcome.url = url_doc_example

----------------------------------------------------------------------------
\* C2

url_picsum_full ==
    <<"h", "t", "t", "p", "s", ":", "/", "/", "p", "i", "c", "s", "u", "m",
    ".", "p", "h", "o", "t", "o", "s", "/", "i", "d", "/", "2", "3", "7",
    "/", "1", "2", "0", "0", "/", "6", "3", "0", ".", "w", "e", "b", "p",
    "?", "g", "r", "a", "y", "s", "c", "a", "l", "e", "&", "b", "l", "u",
    "r", "=", "2", "&", "r", "a", "n", "d", "o", "m", "=", "5">>

\* The effects of a validated options object, in the order grayscale, blur,
\* random, each present only when its option is supplied.
C2_Effects(o) ==
    (IF o.grayscale = JsBool(TRUE) THEN <<s_grayscale>> ELSE <<>>)
    \o (IF o.blur # Undefined
        THEN <<IF o.blur = JsInt(1) THEN s_blur
               ELSE s_blur_eq \o IntToString(o.blur.n)>>
        ELSE <<>>)
    \o (IF o.random # Undefined
        THEN <<s_random_eq \o IntToString(o.random.n)>>
        ELSE <<>>)

\* The prefixes the options allow: none, /id/{imageId} when an image id is
\* supplied, /seed/{seed} when a seed is.
C2_Prefixes(o) ==
    {<<>>}
    \cup (IF o.imageId # Undefined
          THEN {s_id_path \o IntToString(o.imageId.n)} ELSE {})
    \cup (IF o.seed # Undefined
          THEN {s_seed_path \o encodeURIComponent(o.seed.s)} ELSE {})

C2_Url(prefix, w, h, o) ==
    PicsumBase \o prefix \o <<"/">> \o IntToString(w.n)
    \o (IF h # Undefined /\ h # w THEN <<"/">> \o IntToString(h.n) ELSE <<>>)
    \o (IF Supplied(o.format) THEN <<".">> \o o.format.s ELSE <<>>)
    \o (IF C2_Effects(o) = <<>> THEN <<>>
        ELSE <<"?">> \o Join(C2_Effects(o), <<"&">>))

----------------------------------------------------------------------------
\* C3

\* The path segments of a URL that follow its base origin.
SegmentsAfter(base, url) == Tail(SplitOn(After(PathOf(url), base), "/"))

\* The numbers of the size component of a placehold URL: the first segment,
\* cut at the retina suffix and at the extension, split at x.
PlaceholdSizeOf(url) ==
    LET segment == SegmentsAfter(PlaceholdBase, url)[1]
    IN  SplitOn(SplitOn(SplitOn(segment, "@")[1], ".")[1], "x")

\* The dimension segments of a picsum URL: the segments that follow the id
\* or seed prefix, the extension cut from the last.
PicsumDimensionsOf(url) ==
    LET segments == SegmentsAfter(PicsumBase, url)
        prefix == IF segments[1] \in {<<"i", "d">>, <<"s", "e", "e", "d">>}
                  THEN 2 ELSE 0
        dims == SubSeq(segments, prefix + 1, Len(segments))
    IN  [i \in 1..Len(dims) |->
            IF i = Len(dims) THEN SplitOn(dims[i], ".")[1] ELSE dims[i]]

\* The numbers the URL must carry: the width, and the height if and only if
\* one is given and it differs from the width.
C3_Dimensions(w, h) ==
    IF h # Undefined /\ h # w
    THEN <<IntToString(w.n), IntToString(h.n)>>
    ELSE <<IntToString(w.n)>>

C3_OnPlacehold ==
    \/ Called("placehold.buildUrl")
    \/ Called("generatePlaceholder") /\ call.params.provider = JsStr(s_placehold)

C3_OnPicsum ==
    \/ Called("picsum.buildUrl")
    \/ Called("generatePlaceholder") /\ call.params.provider = JsStr(s_lorem_picsum)

----------------------------------------------------------------------------
\* C4

C4_InDefaultRange(v) ==
    IsInteger(v) /\ v.n >= DEFAULT_MIN_DIMENSION /\ v.n <= DEFAULT_MAX_DIMENSION

\* C4: with the default constraints, generatePlaceholder accepts every
\* integer width and every integer height from 1 to 10000 for both providers
\* and returns a URL.
C4_AcceptsDefaultRange ==
    (/\ Called("generatePlaceholder")
     /\ constraints = DEFAULT_CONSTRAINTS
     /\ call.params.def
     /\ call.params.provider \in Strs({s_placehold, s_lorem_picsum})
     /\ C4_InDefaultRange(call.params.width)
     /\ C4_InDefaultRange(call.params.height)
     /\ call.params.placeholdOptions = NoPlaceholdOptions
     /\ call.params.picsumOptions = NoPicsumOptions)
    => Returned

----------------------------------------------------------------------------
\* C5

C5_OnPlacehold ==
    \/ Called("placehold.validateOptions")
    \/ Called("placehold.buildUrl")
    \/ Called("generatePlaceholder") /\ call.params.provider = JsStr(s_placehold)

\* C5: a retina option is accepted only when an explicit raster format (png,
\* jpeg, gif, webp, avif) is selected in the same options object; retina with
\* svg and retina with no format both fail validation.
C5_RetinaNeedsRasterFormat ==
    LET o == call.params.placeholdOptions
    IN  (/\ C5_OnPlacehold
         /\ Supplied(o.retina)
         /\ ~(Supplied(o.format)
              /\ o.format.s \in {s_png, s_jpeg, s_gif, s_webp, s_avif}))
        => outcome.kind = "ValidationError"

----------------------------------------------------------------------------
\* C6

C6_OnPlacehold ==
    \/ Called("placehold.validateOptions")
    \/ Called("placehold.buildUrl")
    \/ Called("generatePlaceholder") /\ call.params.provider = JsStr(s_placehold)

\* C6: placehold validateOptions, and so buildUrl and generatePlaceholder,
\* fails with a validation error whenever exactly one of backgroundColor and
\* textColor is supplied, whichever it is and whether or not its value is a
\* valid color; no URL is returned.
C6_ColorsPaired ==
    LET o == call.params.placeholdOptions
    IN  (/\ C6_OnPlacehold
         /\ Supplied(o.backgroundColor) # Supplied(o.textColor))
        => /\ outcome.kind = "ValidationError"
           /\ outcome.url = <<>>

\* A valid text color alone.
C6_Witness ==
    /\ Called("placehold.validateOptions")
    /\ call.params.placeholdOptions.backgroundColor = Undefined
    /\ call.params.placeholdOptions.textColor = JsStr(s_2563eb)
    /\ outcome = ValidationError("colors")

----------------------------------------------------------------------------
\* C7

\* C7: for each of the recognized fonts other than lato the placehold URL
\* carries a font query parameter whose value is the font name with every -
\* replaced by +; for lato or no font it carries no font parameter.
C7_FontParameter ==
    LET o == call.params.placeholdOptions
        params == QueryParamsOf(outcome.url)
        fonts == {i \in 1..Len(params) : StartsWith(params[i], s_font_eq)}
    IN  (Called("placehold.buildUrl") /\ Returned)
        => IF Supplied(o.font) /\ o.font.s # s_lato
           THEN /\ fonts = {Len(params)}
                /\ params[Len(params)]
                     = s_font_eq \o ReplaceAll(o.font.s, "-", <<"+">>)
           ELSE fonts = {}

----------------------------------------------------------------------------
\* C8

\* C8: for every non-negative integer imageId, 0 included, supplied without a
\* seed the picsum URL begins with {base}/id/{imageId}/{width}; for every
\* accepted seed supplied without an imageId it begins with
\* {base}/seed/{percent-encoded seed}/{width}; with neither it begins with
\* {base}/{width}.
C8_SelectorPrefix ==
    LET o == call.params.picsumOptions
        w == <<"/">> \o IntToString(call.params.width.n)
    IN  (Called("picsum.buildUrl") /\ Returned)
        => StartsWith(outcome.url,
              IF o.imageId # Undefined /\ o.seed = Undefined
              THEN PicsumBase \o s_id_path \o IntToString(o.imageId.n) \o w
              ELSE IF o.seed # Undefined /\ o.imageId = Undefined
              THEN PicsumBase \o s_seed_path \o encodeURIComponent(o.seed.s) \o w
              ELSE PicsumBase \o w)

----------------------------------------------------------------------------
\* C9

C9_OnPicsum ==
    \/ Called("picsum.validateOptions")
    \/ Called("picsum.buildUrl")
    \/ Called("generatePlaceholder") /\ call.params.provider = JsStr(s_lorem_picsum)

\* C9: picsum options in which imageId and seed are both defined fail with a
\* validation error, for every imageId including 0, and no returned picsum URL
\* carries both an /id/ and a /seed/ prefix.
C9_SelectorsExclusive ==
    LET o == call.params.picsumOptions
    IN  C9_OnPicsum
        => /\ (o.imageId # Undefined /\ o.seed # Undefined)
                => (outcome.kind = "ValidationError" /\ outcome.url = <<>>)
           /\ Returned
                => ~(Contains(outcome.url, s_id_path)
                     /\ Contains(outcome.url, s_seed_path))

\* Id 0 with an accepted seed is refused by the exclusivity check itself.
C9_Witness ==
    /\ Called("picsum.validateOptions")
    /\ call.params.picsumOptions.imageId = JsInt(0)
    /\ call.params.picsumOptions.seed = JsStr(s_picsum)
    /\ outcome = ValidationError("options")

----------------------------------------------------------------------------
\* C10

C10_BlurParams(url) ==
    LET params == QueryParamsOf(url)
    IN  {params[i] : i \in {j \in 1..Len(params) : StartsWith(params[j], s_blur)}}

\* C10: a picsum blur of exactly 1 yields the bare query parameter blur, an
\* integer blur from 2 to 10 yields blur=n, and a blur that is not an integer
\* or lies outside 1..10 fails validation, so that no URL (and no bare blur)
\* is produced for 0.
C10_Blur ==
    LET o == call.params.picsumOptions
        b == o.blur
    IN  (Called("picsum.buildUrl") /\ b # Undefined)
        => IF IsInteger(b) /\ b.n \in 1..10
           THEN /\ Returned
                   <=> /\ ~Threw(validateDimensions(call.params.width,
                                                    call.params.height))
                       /\ ~Threw(PicsumCheckImageId(o))
                       /\ ~Threw(PicsumCheckRandom(o))
                /\ Returned
                   => C10_BlurParams(outcome.url)
                        = {IF b.n = 1 THEN s_blur
                           ELSE s_blur_eq \o IntToString(b.n)}
           ELSE /\ outcome.kind = "ValidationError"
                /\ outcome.url = <<>>

\* Blur 1 alone gives the query ?blur.
C10_Witness ==
    /\ Called("picsum.buildUrl")
    /\ call.params.picsumOptions.blur = JsInt(1)
    /\ Returned
    /\ QueryParamsOf(outcome.url) = <<s_blur>>

----------------------------------------------------------------------------
\* C11

\* C11: whenever the picsum option random is a non-negative integer, 0
\* included, the URL contains random={n}, its value spelled out, as the last
\* effect; a negative or non-integer random fails validation.
C11_Random ==
    LET o == call.params.picsumOptions
        r == o.random
        params == QueryParamsOf(outcome.url)
    IN  (Called("picsum.buildUrl") /\ r # Undefined)
        => IF IsInteger(r) /\ r.n >= 0
           THEN /\ Returned
                   <=> /\ ~Threw(validateDimensions(call.params.width,
                                                    call.params.height))
                       /\ ~Threw(PicsumCheckImageId(o))
                       /\ ~Threw(PicsumCheckBlur(o))
                /\ Returned
                   => /\ Len(params) > 0
                      /\ params[Len(params)] = s_random_eq \o IntToString(r.n)
                      /\ \A i \in 1..(Len(params) - 1) :
                             ~StartsWith(params[i], s_random_eq)
           ELSE /\ outcome.kind = "ValidationError"
                /\ outcome.url = <<>>

\* A token of 0 after a blur: the query ends with random=0.
C11_Witness ==
    /\ Called("picsum.buildUrl")
    /\ call.params.picsumOptions.random = JsInt(0)
    /\ call.params.picsumOptions.blur = JsInt(2)
    /\ Returned
    /\ QueryParamsOf(outcome.url)
         = <<s_blur_eq \o <<"2">>, s_random_eq \o <<"0">>>>

----------------------------------------------------------------------------
\* C12

\* The request carries an options object of the provider it does not name.
C12_Mismatched(params) ==
    \/ params.provider = JsStr(s_placehold) /\ params.picsumOptions.def
    \/ params.provider = JsStr(s_lorem_picsum) /\ params.placeholdOptions.def

\* C12: a request for placehold that carries a picsumOptions object, or for
\* lorem-picsum that carries a placeholdOptions object, always fails
\* generatePlaceholder with a validation error, before the factory is asked
\* for a builder and before any buildUrl is invoked.
C12_CrossProviderRejected ==
    (Called("generatePlaceholder") /\ C12_Mismatched(call.params))
    => /\ outcome.kind = "ValidationError"
       /\ outcome.url = <<>>
       /\ steps = <<"validateParams">>

\* The request {provider: placehold, picsumOptions: {grayscale: true}}.
C12_Witness ==
    /\ Called("generatePlaceholder")
    /\ call.params.provider = JsStr(s_placehold)
    /\ call.params.width = JsInt(300)
    /\ call.params.placeholdOptions = NoPlaceholdOptions
    /\ call.params.picsumOptions
         = PicsumOptions(Undefined, Undefined, Undefined, JsBool(TRUE),
                         Undefined, Undefined)
    /\ outcome = ValidationError("picsumOptions")
    /\ steps = <<"validateParams">>

----------------------------------------------------------------------------
\* C13

\* The value is an integer within the bounds lo..hi, both included.
C13_Within(value, lo, hi) == value.k = "int" /\ lo <= value.n /\ value.n <= hi

\* The request names a provider the validator holds and carries no options.
C13_Plain(params) ==
    /\ params.def
    /\ params.provider.k = "string"
    /\ \E i \in 1..Len(constraints.supportedProviders) :
           constraints.supportedProviders[i] = params.provider.s
    /\ ~params.placeholdOptions.def
    /\ ~params.picsumOptions.def

\* C13: after any sequence of updateConstraints calls validateParams accepts
\* an integer width exactly when minWidth <= width <= maxWidth, and a given
\* integer height exactly when minHeight <= height <= maxHeight, of the
\* constraint set held at that moment; a value on a bound succeeds, one beyond
\* it fails with a validation error, and a non-integer, NaN or non-numeric
\* value always fails.
C13_RangeBoundaries ==
    LET w == call.params.width
        h == call.params.height
        widthOk == C13_Within(w, constraints.minWidth, constraints.maxWidth)
        heightOk == h = Undefined
                    \/ C13_Within(h, constraints.minHeight, constraints.maxHeight)
    IN  (Called("validateParams") /\ C13_Plain(call.params))
        => /\ (widthOk /\ heightOk) => outcome = Completed
           /\ ~widthOk => outcome = ValidationError("width")
           /\ (widthOk /\ ~heightOk) => outcome = ValidationError("height")

\* After updateConstraints({maxWidth: 500}) a width of 500 is accepted.
C13_Witness ==
    /\ Called("validateParams")
    /\ updates > 0
    /\ constraints.maxWidth = 500
    /\ call.params.width = JsInt(500)
    /\ C13_Plain(call.params)
    /\ outcome = Completed

----------------------------------------------------------------------------
\* C14

\* The provider names the validator holds as supported.
C14_Supported ==
    {constraints.supportedProviders[i] :
        i \in 1..Len(constraints.supportedProviders)}

\* C14: validateParams tells two failures of the provider field apart: a
\* provider that is not a string or is empty fails with a validation error; a
\* non-empty string absent from the supported providers held at that moment
\* fails with a provider error, a different kind, whose message lists the
\* supported providers.
C14_ProviderFailureKinds ==
    LET p == call.params.provider
    IN  (Called("validateParams") /\ call.params.def)
        => /\ (p.k # "string" \/ p.s = <<>>)
                => outcome = ValidationError("provider")
           /\ (p.k = "string" /\ p.s # <<>> /\ p.s \notin C14_Supported)
                => /\ outcome.kind = "ProviderError"
                   /\ outcome.url = <<>>
                   /\ \A name \in C14_Supported :
                          Contains(outcome.message, name)

\* unsplash under the default constraints: a provider error naming placehold
\* and lorem-picsum.
C14_Witness ==
    /\ Called("validateParams")
    /\ constraints = DEFAULT_CONSTRAINTS
    /\ call.params.provider = JsStr(s_unsplash)
    /\ outcome.kind = "ProviderError"
    /\ Contains(outcome.message, s_placehold \o s_comma_space \o s_lorem_picsum)

----------------------------------------------------------------------------
\* C15

\* C15: getConstraints returns a defensive copy: however its caller modifies
\* the returned value, its numeric bounds and its supportedProviders
\* collection included, the constraint set the validator holds, and so the
\* outcome of every later validateParams call, stays as it was.
C15_DefensiveCopy == [][ModifyCopy => constraints' = constraints]_vars

----------------------------------------------------------------------------
\* C16

\* The held set after updateConstraints(partial): the fields the partial
\* names carry its values, every other field is as before.
C16_Merged(partial) ==
    /\ \A f \in DOMAIN partial : constraints'[f] = partial[f]
    /\ \A f \in DOMAIN constraints \ DOMAIN partial :
           constraints'[f] = constraints[f]
    /\ DOMAIN constraints' = DOMAIN constraints

\* C16: updateConstraints(partial) changes exactly the fields named in the
\* partial to the given values and leaves every other field of the held
\* constraint set unchanged; the next validateParams call is checked against
\* the merged set.
C16_UpdateFrame ==
    [][\A partial \in ValidatorPartials :
           UpdateConstraintsWith(partial, MaxReconfigurations)
           => C16_Merged(partial)]_vars

\* maxWidth 500 then the height range 50..60: the second update kept the
\* first, and a width of 501 is refused against the merged set.
C16_Witness ==
    /\ Called("validateParams")
    /\ updates = 2
    /\ constraints = [minWidth |-> 1, maxWidth |-> 500, minHeight |-> 50,
                      maxHeight |-> 60,
                      supportedProviders |-> <<s_placehold, s_lorem_picsum>>]
    /\ call.params.width = JsInt(501)
    /\ call.params.provider = JsStr(s_placehold)
    /\ outcome = ValidationError("width")

----------------------------------------------------------------------------
\* C17

\* The call that has just run is one the caller remembers, arguments and all.
C17_Repeated == pc = "returned" /\ memo.call.op # "none" /\ memo.call = call

C17_OnBuilder == call.op \in {"placehold.buildUrl", "picsum.buildUrl"}

----------------------------------------------------------------------------
\* C18

\* What each component generatePlaceholder calls did for the request: the
\* validator, the factory, and the builder of the request's provider called
\* directly with the request's dimensions and that provider's options.
C18_Validation == validateParams(constraints, call.params)

C18_Builder == createBuilder(call.params.provider)

C18_Build ==
    IF call.params.provider = JsStr(s_placehold)
    THEN PlaceholdBuildUrl(PROVIDER_CONFIGS[s_placehold], call.params.width,
                           call.params.height, call.params.placeholdOptions)
    ELSE PicsumBuildUrl(PROVIDER_CONFIGS[s_lorem_picsum], call.params.width,
                        call.params.height, call.params.picsumOptions)

\* The failure of the first component that failed.
C18_Raised ==
    IF Threw(C18_Validation) THEN C18_Validation
    ELSE IF Threw(C18_Builder.err) THEN C18_Builder.err
    ELSE C18_Build

\* C18: generatePlaceholder passes failures through: an error raised by
\* validateParams, by the factory or by the builder's buildUrl reaches the
\* caller with the same kind and the same content; a failing call returns no
\* result record; a record is returned only when validation and URL building
\* both completed.
C18_PassThrough ==
    Called("generatePlaceholder")
    => /\ Threw(outcome)
          => /\ outcome = C18_Raised
             /\ Threw(C18_Raised)
             /\ outcome.rec = NoRecord
             /\ outcome.url = <<>>
       /\ Returned
          => /\ ~Threw(C18_Validation)
             /\ ~Threw(C18_Builder.err)
             /\ ~Threw(C18_Build)
             /\ steps = <<"validateParams", "createBuilder", "buildUrl">>
             /\ outcome.url = C18_Build.url
             /\ outcome.rec # NoRecord

\* A request the validator accepts and the builder refuses: the builder's
\* validation error reaches the caller.
C18_Witness ==
    /\ Called("generatePlaceholder")
    /\ steps = <<"validateParams", "createBuilder", "buildUrl">>
    /\ outcome.kind = "ValidationError"
    /\ outcome = C18_Build
    /\ outcome.rec = NoRecord

----------------------------------------------------------------------------
\* C19

\* What validateParams says of the arguments under the default constraints.
C19_Validation == validateParams(DEFAULT_CONSTRAINTS, call.params)

C19_Width == IntToString(call.params.width.n)

C19_Height == IntToString(call.params.height.n)

\* C19: the legacy image_placeholder(provider, width, height) runs
\* validateParams first and raises its error, with no URL, when validation
\* fails; for every provider, width and height accepted under the default
\* constraints it returns the provider's template with the tokens
\* substituted, the height always included: {base}/{width}x{height} for
\* placehold and {base}/{width}/{height} for lorem-picsum, also when width
\* equals height.
C19_LegacyTemplate ==
    Called("image_placeholder")
    => /\ Threw(C19_Validation)
          => outcome = C19_Validation /\ outcome.url = <<>>
       /\ ~Threw(C19_Validation)
          => /\ Returned
             /\ call.params.provider \in Strs({s_placehold, s_lorem_picsum})
             /\ call.params.provider = JsStr(s_placehold)
                => outcome.url = PlaceholdBase \o <<"/">> \o C19_Width
                                 \o <<"x">> \o C19_Height
             /\ call.params.provider = JsStr(s_lorem_picsum)
                => outcome.url = PicsumBase \o <<"/">> \o C19_Width
                                 \o <<"/">> \o C19_Height

\* A square placehold image: the height is in the URL.
C19_Witness ==
    /\ Called("image_placeholder")
    /\ call.params.provider = JsStr(s_placehold)
    /\ call.params.width = JsInt(300)
    /\ call.params.height = JsInt(300)
    /\ outcome.url = PlaceholdBase \o <<"/", "3", "0", "0", "x", "3", "0", "0">>

----------------------------------------------------------------------------
\* C20

C20_OnTool == Called("callTool") /\ call.name = s_image_placeholder

\* What the generator does with the arguments of the request.
C20_Core == generatePlaceholder(constraints, call.params)

C20_Success ==
    (C20_OnTool /\ ~Threw(C20_Core))
    => /\ Returned
       /\ Len(outcome.content) = 1
       /\ outcome.content[1] = [type |-> "text", text |-> C20_Core.url]

C20_UnknownTool ==
    (Called("callTool") /\ call.name # s_image_placeholder)
    => /\ outcome.kind = "ServerError"
       /\ outcome.message = s_Unknown_tool \o call.name
       /\ steps = <<>>

\* C20: in the call-tool handler a successful image_placeholder call returns
\* exactly one text content item whose text is the generated URL; any error
\* raised by generatePlaceholder is surfaced to the caller as the error
\* object the core raised, not wrapped; a call naming any other tool fails
\* with a server error without invoking the generator.
C20_ToolHandler ==
    /\ C20_Success
    /\ (C20_OnTool /\ Threw(C20_Core)) => outcome = C20_Core
    /\ C20_UnknownTool

\* C20 as the code has it: the errors of the core's own classes (validation
\* error, provider error) are surfaced as raised; any other error raised by
\* generatePlaceholder is wrapped into a server error that carries the
\* tool's name and the original message.
C20_ToolHandlerWrapsUnexpected ==
    /\ C20_Success
    /\ (C20_OnTool /\ Threw(C20_Core))
       => IF C20_Core.kind \in {"ValidationError", "ProviderError"}
          THEN outcome = C20_Core
          ELSE /\ outcome.kind = "ServerError"
               /\ outcome.message = s_Unexpected_error_during
                                    \o s_image_placeholder \o s_execution
                                    \o C20_Core.message
    /\ C20_UnknownTool

\* A request the validator refuses: its validation error reaches the caller
\* of the tool as raised.
C20_Witness ==
    /\ C20_OnTool
    /\ call.params.width = JsInt(0)
    /\ outcome.kind = "ValidationError"
    /\ outcome.field = "width"
    /\ outcome = C20_Core
    /\ steps = <<"generatePlaceholder", "validateParams">>

----------------------------------------------------------------------------
\* C21

C21_IsDigit(c) == c \in {"0", "1", "2", "3", "4", "5", "6", "7", "8", "9"}

\* The string writes a whole number: digits, after an optional minus sign.
C21_Numeric(cs) ==
    LET body == IF cs # <<>> /\ Head(cs) = "-" THEN Tail(cs) ELSE cs
    IN  body # <<>> /\ \A i \in 1..Len(body) : C21_IsDigit(body[i])

C21_Number(cs) ==
    IF Head(cs) = "-" THEN -DigitsValue(Tail(cs)) ELSE DigitsValue(cs)

\* The variable at position i overrides its bound: it is set and not empty.
C21_Override(i) == call.env[i].k = "string" /\ call.env[i].s # <<>>

\* The bound at position i after the overrides that are numbers.
C21_Bound(i) ==
    IF C21_Override(i) THEN C21_Number(call.env[i].s)
    ELSE DEFAULT_CONSTRAINTS[EnvironmentFields[i]]

C21_Invalid ==
    \E i \in 1..4 :
        /\ C21_Override(i)
        /\ ~C21_Numeric(call.env[i].s) \/ C21_Number(call.env[i].s) < 1

C21_Inverted == C21_Bound(1) > C21_Bound(2) \/ C21_Bound(3) > C21_Bound(4)

\* C21: createValidationConstraints either raises a configuration error or
\* returns a constraint set with 1 <= minWidth <= maxWidth and
\* 1 <= minHeight <= maxHeight: each override of the environment that is
\* non-numeric or below 1 is rejected, an inverted min/max pair is rejected,
\* equal min and max are allowed, and with no overrides the defaults 1..10000
\* with both providers are returned.
C21_ConfigurationChecked ==
    Called("createValidationConstraints")
    => /\ Returned \/ outcome.kind = "ConfigurationError"
       /\ Returned
          => /\ 1 <= outcome.constraints.minWidth
             /\ outcome.constraints.minWidth <= outcome.constraints.maxWidth
             /\ 1 <= outcome.constraints.minHeight
             /\ outcome.constraints.minHeight <= outcome.constraints.maxHeight
       /\ C21_Invalid => outcome.kind = "ConfigurationError"
       /\ (~C21_Invalid /\ C21_Inverted) => outcome.kind = "ConfigurationError"
       /\ (~C21_Invalid /\ ~C21_Inverted)
          => /\ Returned
             /\ \A i \in 1..4 : outcome.constraints[EnvironmentFields[i]] = C21_Bound(i)
             /\ outcome.constraints.supportedProviders = <<s_placehold, s_lorem_picsum>>

\* The same with the overrides left out that start with a number and go on
\* with something else.
C21_PrefixNumber ==
    \E i \in 1..4 :
        /\ C21_Override(i)
        /\ ~C21_Numeric(call.env[i].s)
        /\ ~IsNaN(parseInt(call.env[i].s))

C21_ButPrefixNumbers ==
    (Called("createValidationConstraints") /\ ~C21_PrefixNumber)
    => C21_ConfigurationChecked

----------------------------------------------------------------------------
\* C22

\* The rules of validateParams, each stated on the request alone.
C22_NotObject == ~call.params.def

C22_ProviderBad ==
    \/ call.params.provider.k # "string"
    \/ call.params.provider.s = <<>>
    \/ \A i \in 1..Len(constraints.supportedProviders) :
           constraints.supportedProviders[i] # call.params.provider.s

C22_WidthBad ==
    \/ call.params.width.k # "int"
    \/ call.params.width.n < constraints.minWidth
    \/ call.params.width.n > constraints.maxWidth

C22_HeightBad ==
    /\ call.params.height # Undefined
    /\ \/ call.params.height.k # "int"
       \/ call.params.height.n < constraints.minHeight
       \/ call.params.height.n > constraints.maxHeight

C22_OptionsBad ==
    \/ call.params.provider = JsStr(s_placehold) /\ call.params.picsumOptions.def
    \/ call.params.provider = JsStr(s_lorem_picsum)
       /\ call.params.placeholdOptions.def

\* The violations of a request, in the order of the rules.
C22_Violations ==
    <<C22_NotObject, C22_ProviderBad, C22_WidthBad, C22_HeightBad, C22_OptionsBad>>

C22_Fields == <<{"params"}, {"provider"}, {"width"}, {"height"},
                {"picsumOptions", "placeholdOptions"}>>

\* C22: validateParams applies its rules in the fixed order request-is-object,
\* provider, width, height (only if present), provider/options match, and
\* raises the error of the first rule violated: a request with several
\* violations always reports the earliest one.
C22_FirstViolation ==
    Called("validateParams")
    => IF \E i \in 1..5 : C22_Violations[i]
       THEN LET first == CHOOSE i \in 1..5 :
                             /\ C22_Violations[i]
                             /\ \A j \in 1..(i - 1) : ~C22_Violations[j]
            IN  /\ Threw(outcome)
                /\ outcome.field \in C22_Fields[first]
                /\ outcome.kind = "ProviderError"
                   <=> (first = 2 /\ Supplied(call.params.provider))
       ELSE Returned

\* An unsupported provider together with a bad width and mismatched options:
\* the provider error is reported.
C22_Witness ==
    /\ Called("validateParams")
    /\ call.params.provider = JsStr(s_unsplash)
    /\ call.params.width = JsInt(0)
    /\ call.params.height = JsInt(0)
    /\ outcome.kind = "ProviderError"
    /\ C22_WidthBad /\ C22_HeightBad

----------------------------------------------------------------------------
\* C23

\* An integer outside the bounds of the builders.
C23_Outside(v) == v.k = "int" /\ (v.n < 10 \/ v.n > 4000)

C23_OutsideRequest ==
    /\ Called("generatePlaceholder")
    /\ C23_Outside(call.params.width) \/ C23_Outside(call.params.height)

C23_NoUrlOutside ==
    (Called("generatePlaceholder") /\ Returned)
    => /\ ~C23_Outside(call.params.width)
       /\ ~C23_Outside(call.params.height)
       /\ ~C23_Outside(outcome.rec.width)
       /\ ~C23_Outside(outcome.rec.height)

----------------------------------------------------------------------------
\* C24

\* Only validateParams, getConstraints and updateConstraints have been
\* called: no object handed out by getConstraints has been modified.
C24_OnlyCalls == copy.modifications = 0

\* C24: the constraint set held by a PlaceholderValidator satisfies
\* minWidth <= maxWidth, minHeight <= maxHeight and a non-empty
\* supportedProviders set in every state reachable from a valid initial
\* constraint set by any sequence of validateParams, getConstraints and
\* updateConstraints calls.
C24_HeldSetValid ==
    C24_OnlyCalls
    => /\ constraints.minWidth <= constraints.maxWidth
       /\ constraints.minHeight <= constraints.maxHeight
       /\ constraints.supportedProviders # <<>>

----------------------------------------------------------------------------
\* C25

\* The request of a generatePlaceholder call passed validateParams.
C25_Validated ==
    /\ Called("generatePlaceholder")
    /\ Len(steps) > 1

\* Every provider the validator supports is in the table of the factory.
C25_FactoryCovers ==
    \A i \in 1..Len(constraints.supportedProviders) :
        constraints.supportedProviders[i] \in {s_placehold, s_lorem_picsum}

C25_BuilderMade ==
    /\ outcome.kind # "ProviderError"
    /\ "buildUrl" \in {steps[i] : i \in 1..Len(steps)}

\* C25: in generatePlaceholder every request that passes validateParams has a
\* provider for which UrlBuilderFactory.createBuilder returns a builder, so
\* no provider error is ever raised after validation has succeeded, in every
\* validator state reachable through updateConstraints.
C25_NoProviderErrorAfterValidation == C25_Validated => C25_BuilderMade

\* What holds: no provider error after validation while every provider of the
\* validator's supported set is in the factory's table, as it is for the
\* default set.
C25_NoProviderErrorWhenCovered ==
    (C25_Validated /\ C25_FactoryCovers) => C25_BuilderMade

\* A lorem-picsum request validated under updated constraints and built.
C25_Witness ==
    /\ C25_Validated
    /\ updates > 0
    /\ C25_FactoryCovers
    /\ call.params.provider = JsStr(s_lorem_picsum)
    /\ steps = <<"validateParams", "createBuilder", "buildUrl">>
    /\ Returned

----------------------------------------------------------------------------
\* C26

\* What the claim makes of one character of the custom text.
C26_Character(c) ==
    IF c = " " THEN <<"+">>
    ELSE IF c = "\n" THEN <<"\\", "n">>
    ELSE <<c>>

C26_TextValue(text) == Join([i \in 1..Len(text) |-> C26_Character(text[i])], <<>>)

\* C26: the placehold text query value is the custom text with every space
\* replaced by '+' and every newline character replaced by the two characters
\* backslash and n, and no other character changed (no percent-encoding); an
\* empty or absent custom text emits no text parameter.
C26_TextEncoding ==
    LET o == call.params.placeholdOptions
        params == QueryParamsOf(outcome.url)
        texts == {i \in 1..Len(params) : StartsWith(params[i], s_text_eq)}
    IN  (Called("placehold.buildUrl") /\ Returned)
        => IF Supplied(o.customText)
           THEN /\ texts = {1}
                /\ params[1] = s_text_eq \o C26_TextValue(o.customText.s)
           ELSE texts = {}

\* A text with blanks, newlines in a row and nothing else to change.
C26_Witness ==
    /\ Called("placehold.buildUrl")
    /\ Returned
    /\ call.params.placeholdOptions.customText = JsStr(<<" ", "a", "\n", "\n", "b", " ">>)
    /\ call.params.placeholdOptions.font = Undefined
    /\ call.params.width = JsInt(300)
    /\ call.params.height = Undefined
    /\ outcome.url = PlaceholdBase \o <<"/", "3", "0", "0", "?">> \o s_text_eq
                     \o <<"+", "a", "\\", "n", "\\", "n", "b", "+">>

----------------------------------------------------------------------------
\* C27

C27_HexDigits ==
    {"0", "1", "2", "3", "4", "5", "6", "7", "8", "9",
     "a", "b", "c", "d", "e", "f", "A", "B", "C", "D", "E", "F"}

\* A hexadecimal code of 3 or 6 digits, with an optional leading #.
C27_Hex(cs) ==
    \E digits \in {cs} \cup (IF cs # <<>> /\ Head(cs) = "#" THEN {Tail(cs)} ELSE {}) :
        /\ Len(digits) = 3 \/ Len(digits) = 6
        /\ \A i \in 1..Len(digits) : digits[i] \in C27_HexDigits

\* A keyword of the fixed list, in any case.
C27_Keyword(cs) ==
    \E i \in 1..Len(cssColors) :
        /\ Len(cssColors[i]) = Len(cs)
        /\ \A j \in 1..Len(cs) :
               \/ cs[j] = cssColors[i][j]
               \/ cs[j] \in UpperCase /\ LowerOf[cs[j]] = cssColors[i][j]

C27_Color(cs) == C27_Hex(cs) \/ C27_Keyword(cs) \/ cs = s_transparent

\* Options with both colors supplied and nothing else.
C27_BothColors ==
    LET o == call.params.placeholdOptions
    IN  /\ o.def
        /\ Supplied(o.backgroundColor) /\ Supplied(o.textColor)
        /\ o.format = Undefined /\ o.retina = Undefined /\ o.font = Undefined

\* The size component of the URL of the call.
C27_Size ==
    IntToString(call.params.width.n)
    \o (IF call.params.height # Undefined
           /\ call.params.height # call.params.width
        THEN <<"x">> \o IntToString(call.params.height.n) ELSE <<>>)

\* C27: when both placehold colors are supplied, validation succeeds exactly
\* when each of the two values is a 3- or 6-digit hexadecimal code with an
\* optional leading '#', a keyword of the fixed CSS color list (compared
\* case-insensitively), or 'transparent'; any other value for either color
\* fails with a validation error naming that field, backgroundColor checked
\* before textColor; accepted values are placed in the URL unchanged as
\* /{backgroundColor}/{textColor}.
C27_ColorValues ==
    LET o == call.params.placeholdOptions
        bg == o.backgroundColor.s
        tc == o.textColor.s
    IN  /\ (Called("placehold.validateOptions") /\ C27_BothColors)
           => /\ Returned <=> (C27_Color(bg) /\ C27_Color(tc))
              /\ ~C27_Color(bg) => outcome = ValidationError("backgroundColor")
              /\ (C27_Color(bg) /\ ~C27_Color(tc))
                 => outcome = ValidationError("textColor")
        /\ (Called("placehold.buildUrl") /\ C27_BothColors /\ Returned)
           => /\ C27_Color(bg) /\ C27_Color(tc)
              /\ StartsWith(After(outcome.url, PlaceholdBase),
                            <<"/">> \o C27_Size \o <<"/">> \o bg
                            \o <<"/">> \o tc)

\* A code with its # and a keyword in capitals, in the URL as given.
C27_Witness ==
    /\ Called("placehold.buildUrl")
    /\ Returned
    /\ call.params.placeholdOptions.backgroundColor = JsStr(<<"#", "f", "f", "f">>)
    /\ call.params.placeholdOptions.textColor = JsStr(<<"N", "A", "V", "Y">>)
    /\ call.params.width = JsInt(1200)
    /\ outcome.url = PlaceholdBase
                     \o <<"/", "1", "2", "0", "0", "x", "6", "3", "0", "/",
                          "#", "f", "f", "f", "/", "N", "A", "V", "Y">>

----------------------------------------------------------------------------
\* C28

\* C28: every result record returned by generatePlaceholder has provider
\* equal to the request's provider, dimensions.width equal to the request's
\* width, dimensions.height equal to the request's height when given and to
\* the width otherwise, and appliedOptions containing exactly the options
\* object the request supplied under the key matching the provider (none
\* when none was supplied); a successful result never carries the options of
\* the other provider.
C28_ResultRecord ==
    LET p == call.params
        r == outcome.rec
    IN  (Called("generatePlaceholder") /\ Returned)
        => /\ r.provider = p.provider
           /\ r.provider \in Strs({s_placehold, s_lorem_picsum})
           /\ r.width = p.width
           /\ r.height = (IF p.height # Undefined THEN p.height ELSE p.width)
           /\ r.height.k = "int"
           /\ IF p.provider = JsStr(s_placehold)
              THEN r.placeholdOptions = p.placeholdOptions /\ ~r.picsumOptions.def
              ELSE r.picsumOptions = p.picsumOptions /\ ~r.placeholdOptions.def

\* The square default: no height given, the record's height is the width.
C28_Witness ==
    /\ Called("generatePlaceholder")
    /\ Returned
    /\ call.params.provider = JsStr(s_placehold)
    /\ call.params.width = JsInt(300)
    /\ call.params.height = Undefined
    /\ call.params.placeholdOptions.def
    /\ outcome.rec.width = JsInt(300)
    /\ outcome.rec.height = JsInt(300)
    /\ outcome.rec.placeholdOptions = call.params.placeholdOptions

----------------------------------------------------------------------------
\* C29

\* A step in which an operation is called and runs to its outcome.
C29_CallStep == pc = "idle" /\ pc' = "returned"

\* validateParams, buildUrl and generatePlaceholder, succeeding or failing,
\* leave the held constraint set as it was.
C29_CallsKeepConstraints == [][C29_CallStep => constraints' = constraints]_vars

\* C29: validateParams, buildUrl and generatePlaceholder, whether they succeed
\* or fail, leave the validator's held constraint set unchanged, and the set
\* changes only through updateConstraints.
C29_OnlyUpdateConstraints ==
    [][/\ C29_CallStep => constraints' = constraints
       /\ constraints' # constraints => updates' = updates + 1]_vars

\* The step that changes the held set with no updateConstraints call: the
\* providers array of an object handed out by getConstraints is changed in place.
C29_ChangedThroughCopy ==
    /\ copy.held
    /\ copy.sharesProviders
    /\ copy.modifications > 0
    /\ updates = 0
    /\ constraints # DEFAULT_CONSTRAINTS

----------------------------------------------------------------------------
\* C30

\* The call in flight or just returned is the one memo holds.
C30_InFlight ==
    /\ pc \in {"settled", "returned"}
    /\ call.op = "generatePlaceholder"
    /\ memo.call = call

\* C30: generatePlaceholder does all of its validation and URL building in one
\* uninterrupted step: with generatePlaceholder calls and updateConstraints
\* calls interleaved by the host, the call never waits with its checks half
\* made, and its outcome is the outcome of running the call against the
\* constraint set held when it started, whatever set is held when the outcome
\* is handed over.
C30_Atomic ==
    C30_InFlight => outcome = generatePlaceholder(memo.constraints, call.params)

\* No call waits with its checks half made.
C30_NeverSuspended == pc # "suspended"

\* An updateConstraints call came between the call and the handing over of
\* its outcome, and the set held now would refuse the request that succeeded.
C30_Witness ==
    /\ Called("generatePlaceholder")
    /\ memo.call = call
    /\ constraints # memo.constraints
    /\ Returned
    /\ outcome = generatePlaceholder(memo.constraints, call.params)
    /\ Threw(generatePlaceholder(constraints, call.params))

====
